---- MODULE Spec2Model ----
(***************************************************************************)
(* A model of go-rpio: the register-level GPIO / clock / PWM / SPI layer.  *)
(*                                                                         *)
(* A 32-bit register value is the set of its bit positions that hold 1     *)
(* (a subset of 0..31): x | y is union, x &^ y is set difference, and a    *)
(* left shift drops the bits that leave the 32-bit word.                   *)
(* The mapped windows (gpioMem, spiMem, clkMem, pwmMem) are functions from *)
(* a word index to such a value; a store goes through the hardware's       *)
(* register semantics (GpioStore, SpiStore, ...).                          *)
(***************************************************************************)
EXTENDS Integers, Sequences, FiniteSets, TLC

VARIABLES
    gpioMem,    \* GPIO window: word index -> register value
    hw2711,     \* the hardware is a BCM2711 (2-bit pull fields), else legacy
    pin,        \* the Pin value the caller operates on
    prev,       \* the call (or hardware event) before the last one
    last,       \* the last call (or hardware event) and what it returned
    spiMem,     \* SPI window: control bits (csReg) and divider (clkDivReg); with
                \* live = FALSE where no peripheral answers behind the window
    txFifo,     \* SPI hardware: bytes written to the FIFO, not yet shifted out
    rxFifo,     \* SPI hardware: bytes shifted in, not yet read
    spi,        \* the running SpiExchange call: where it is, its data and its i
    clkMem,     \* clock window
    pwmMem,     \* PWM window
    clk,        \* the running SetFreq call: where it is, its arguments, its stores
    intrMem,    \* interrupt window: the IRQ lines 0..63 the enable registers show
    armed,      \* the Edge of the most recent DetectEdge on pin, -1 before any
    ranges,     \* /proc/device-tree/soc/ranges: whether it opens, and its bytes
    proc,       \* the process: the windows that are mapped, and irqsBackup
    memlock,    \* the process-wide lock: the thread that holds it, or "free"
    thr         \* the threads of the process: the call each one is in, and where

vars == <<gpioMem, hw2711, pin, prev, last, spiMem, txFifo, rxFifo, spi,
          clkMem, pwmMem, clk, intrMem, armed, ranges, proc, memlock, thr>>

gpioVars == <<gpioMem, hw2711>>
spiVars  == <<spiMem, txFifo, rxFifo, spi>>
clkVars  == <<clkMem, pwmMem, clk>>
osVars   == <<ranges, proc, memlock, thr>>

(***************************************************************************)
(* Bounds                                                                  *)
(***************************************************************************)
\* the highest pin number the pin operations are explored for
MaxPin == 53

\* the highest pin number the pull operations are explored for
MaxPullPin == 57

\* the longest buffer handed to SpiExchange
MaxLen == 3

\* the most bytes the translation file has
MaxFile == 12

\* the number of SetFreq calls in one run
MaxCalls == 1

\* the calls one thread makes one after the other
MaxSeq == 4

\* the frequencies SetFreq is called with
Freqs == {4688, 152000, 12000000, 19200000}

\* the byte values the buffers are filled with
ByteVals == {0, 173, 190, 222}

\* the buffers handed to SpiExchange
Buffers == UNION {[1..n -> ByteVals] : n \in 0..MaxLen}

Pins == 0..MaxPin

(***************************************************************************)
(* 32-bit words as bit sets                                                *)
(***************************************************************************)
Word == 0..31

AllOnes == Word

\* the bits of a non-negative number below 2^31
BitsOf(n) == {i \in 0..30 : (n \div (2 ^ i)) % 2 = 1}

RECURSIVE ValOf(_)
\* the number a bit set below bit 31 stands for
ValOf(s) == IF s = {} THEN 0
            ELSE LET i == CHOOSE j \in s : TRUE IN (2 ^ i) + ValOf(s \ {i})

\* x << n on a uint32
Shl(x, n) == {i + n : i \in x} \cap Word

\* x >> n on a uint32
Shr(x, n) == {i - n : i \in {j \in x : j >= n}}

\* x &^ y
AndNot(x, y) == x \ y

\* the register patterns a window may hold when the program starts
Fills == {{}, AllOnes, {i \in Word : i % 2 = 0}}

(***************************************************************************)
(* The program's enumerations (iota order of the source)                   *)
(***************************************************************************)
Modes == {"Input", "Output", "Clock", "Pwm", "Spi",
          "Alt0", "Alt1", "Alt2", "Alt3", "Alt4", "Alt5"}

States == {"Low", "High"}

\* Pull as its uint8 value: PullOff = 0, PullDown = 1, PullUp = 2, PullNone = 3
Pulls == [PullOff |-> 0, PullDown |-> 1, PullUp |-> 2, PullNone |-> 3]

\* Edge as its uint8 value: NoEdge = 0, RiseEdge = 1, FallEdge = 2, AnyEdge = 3
Edges == [NoEdge |-> 0, RiseEdge |-> 1, FallEdge |-> 2, AnyEdge |-> 3]

\* what a read of an unimplemented GPIO register returns on the legacy chips
\* mutant: a value whose 2-bit fields are all pull codes (pin 48 Up, pin 49 Down)
Sentinel_PullCodes == {0, 3}

Sentinel == {0, 1, 2, 3, 5, 6, 8, 11, 13, 14, 20, 21, 22, 24, 25, 26, 29, 30}

None == [op |-> "none", pin |-> 0, arg |-> "", ret |-> "", was |-> ""]

Call(op, p, arg, ret, was) ==
    [op |-> op, pin |-> p, arg |-> arg, ret |-> ret, was |-> was]

\* a / b of Go's int for b # 0: the quotient truncated toward zero
TruncDiv(a, b) ==
    LET abs(x) == IF x < 0 THEN -x ELSE x
        q == abs(a) \div abs(b)
    IN  IF (a < 0) = (b < 0) THEN q ELSE -q

(***************************************************************************)
(* The GPIO window and the hardware behind it                              *)
(***************************************************************************)
\* the words of the GPIO window the pin operations can address with a uint8 pin
GpioRegs == 0..72

\* words of the window that no register of the controller sits behind
GpioReserved == {6, 9, 12, 15, 18, 21, 24, 27, 30, 33, 36, 40}

\* the level register of a bank takes a new value: every bit that rose with its
\* rising-edge enable set, or fell with its falling-edge enable set, latches
\* the bit's event in the event-detect-status register
LevelChange(mem, bank, level) ==
    LET old  == mem[13 + bank]
        rose == (level \ old) \cap mem[19 + bank]
        fell == (old \ level) \cap mem[22 + bank]
    IN  [mem EXCEPT ![13 + bank] = level, ![16 + bank] = @ \cup rose \cup fell]

\* gpioMem[reg] = val as the hardware takes it: set and clear registers act on
\* the level register and read back 0, the level register is read-only, the
\* event-detect-status register is write-1-to-clear, words 57..60 are registers
\* only on the BCM2711, and every other register stores the value
GpioStore(mem, reg, val) ==
    CASE reg \in {7, 8}     -> LevelChange(mem, reg - 7, mem[reg + 6] \cup val)
      [] reg \in {10, 11}   -> LevelChange(mem, reg - 10, mem[reg + 3] \ val)
      [] reg \in {13, 14}   -> mem
      [] reg \in {16, 17}   -> [mem EXCEPT ![reg] = @ \ val]
      [] reg \in 57..60     -> IF hw2711 THEN [mem EXCEPT ![reg] = val] ELSE mem
      [] reg \in GpioReserved -> mem
      [] OTHER              -> [mem EXCEPT ![reg] = val]

(***************************************************************************)
(* Pin mode                                                                *)
(***************************************************************************)
fselReg(p) == p \div 10

fselShift(p) == (p % 10) * 3

\* mutant: the codes of Alt4 and Alt5 in counting order (Alt4 = 2, Alt5 = 3)
FuncCode_AltOrder(p, mode) ==
    CASE mode = "Input"  -> 0
      [] mode = "Output" -> 1
      [] mode = "Alt0"   -> 4
      [] mode = "Alt1"   -> 5
      [] mode = "Alt2"   -> 6
      [] mode = "Alt3"   -> 7
      [] mode = "Alt4"   -> 2
      [] mode = "Alt5"   -> 3
      [] OTHER           -> -1

\* the 3-bit function code PinMode writes, or -1 where PinMode returns early
FuncCode(p, mode) ==
    CASE mode = "Input"  -> 0
      [] mode = "Output" -> 1
      [] mode = "Clock"  -> IF p \in {4, 5, 6, 32, 34, 42, 43, 44} THEN 4
                            ELSE IF p \in {20, 21} THEN 2 ELSE -1
      [] mode = "Pwm"    -> IF p \in {12, 13, 40, 41, 45} THEN 4
                            ELSE IF p \in {18, 19} THEN 2 ELSE -1
      [] mode = "Spi"    -> IF p \in (7..11) \cup (35..39) THEN 4
                            ELSE IF p \in (16..21) \cup (40..45) THEN 3 ELSE -1
      [] mode = "Alt0"   -> 4
      [] mode = "Alt1"   -> 5
      [] mode = "Alt2"   -> 6
      [] mode = "Alt3"   -> 7
      [] mode = "Alt4"   -> 3
      [] mode = "Alt5"   -> 2

\* the 3-bit mask of a pin's function-select field
\* mutant: the mask covers the field of the next pin too
pinMask_SixBits == BitsOf(63)

pinMask == BitsOf(7)

PinMode(mem, p, mode) ==
    LET f == FuncCode(p, mode) IN
    IF f = -1 THEN mem
    ELSE GpioStore(mem, fselReg(p),
                   AndNot(mem[fselReg(p)], Shl(pinMask, fselShift(p)))
                       \cup Shl(BitsOf(f), fselShift(p)))

ReadPinMode(mem, p) == ValOf(Shr(mem[fselReg(p)], fselShift(p)) \cap BitsOf(7))

(***************************************************************************)
(* Pin level                                                               *)
(***************************************************************************)
\* mutant: the set register of bank 0 for every pin
setReg_Bank0(p) == 7

setReg(p) == p \div 32 + 7

\* mutant: the clear register of bank 0 for every pin
clearReg_Bank0(p) == 10

clearReg(p) == p \div 32 + 10

levelReg(p) == p \div 32 + 13

\* 1 << (p & 31)
PinBit(p) == Shl({0}, p % 32)

WritePin(mem, p, state) ==
    IF state = "Low" THEN GpioStore(mem, clearReg(p), PinBit(p))
    ELSE GpioStore(mem, setReg(p), PinBit(p))

ReadPin(mem, p) ==
    IF mem[levelReg(p)] \cap PinBit(p) # {} THEN "High" ELSE "Low"

TogglePin(mem, p) ==
    IF mem[levelReg(p)] \cap PinBit(p) # {}
    THEN GpioStore(mem, clearReg(p), PinBit(p))
    ELSE GpioStore(mem, setReg(p), PinBit(p))

(***************************************************************************)
(* Interrupt enables                                                       *)
(***************************************************************************)
\* the enable registers are write-1-to-enable: the lines of irqs become enabled
EnableIRQs(intr, irqs) == intr \cup irqs

\* the disable registers are write-1-to-disable
DisableIRQs(intr, irqs) == intr \ irqs

(***************************************************************************)
(* Edge detection                                                          *)
(***************************************************************************)
renReg(p) == p \div 32 + 19

fenReg(p) == p \div 32 + 22

edsReg(p) == p \div 32 + 16

\* edge & RiseEdge > 0
HasRise(edge) == edge % 2 = 1

\* mutant: every Edge other than NoEdge enables the falling edge
HasFall_AnyEdge(edge) == edge # 0

\* edge & FallEdge > 0
HasFall(edge) == (edge \div 2) % 2 = 1

\* the interrupt window after DetectEdge
DetectEdgeIrq(intr, edge) ==
    IF edge # Edges.NoEdge THEN DisableIRQs(intr, {49, 52}) ELSE intr

\* mutant: the enables are written and the event status is not cleared
DetectEdge_NoClear(mem, p, edge) ==
    LET m1 == GpioStore(mem, renReg(p),
                        IF HasRise(edge) THEN mem[renReg(p)] \cup PinBit(p)
                        ELSE AndNot(mem[renReg(p)], PinBit(p)))
    IN  GpioStore(m1, fenReg(p),
                  IF HasFall(edge) THEN m1[fenReg(p)] \cup PinBit(p)
                  ELSE AndNot(m1[fenReg(p)], PinBit(p)))

DetectEdge(mem, p, edge) ==
    LET m1 == GpioStore(mem, renReg(p),
                        IF HasRise(edge) THEN mem[renReg(p)] \cup PinBit(p)
                        ELSE AndNot(mem[renReg(p)], PinBit(p)))
        m2 == GpioStore(m1, fenReg(p),
                        IF HasFall(edge) THEN m1[fenReg(p)] \cup PinBit(p)
                        ELSE AndNot(m1[fenReg(p)], PinBit(p)))
    IN  GpioStore(m2, edsReg(p), PinBit(p))

\* what EdgeDetected returns
EdgeDetectedRet(mem, p) == mem[edsReg(p)] \cap PinBit(p) # {}

\* mutant: the whole event status register is written back
EdgeDetected_WholeRegister(mem, p) == GpioStore(mem, edsReg(p), mem[edsReg(p)])

\* mutant: the event status is read and not written back
EdgeDetected_ReadOnly(mem, p) == mem

EdgeDetected(mem, p) == GpioStore(mem, edsReg(p), mem[edsReg(p)] \cap PinBit(p))

(***************************************************************************)
(* Pull up / down                                                          *)
(***************************************************************************)
isBCM2711(mem) == mem[60] # Sentinel

\* mutant: the BCM2711 path writes the Pull value itself, as the legacy path
\* does (Down = 1, Up = 2)
PullCode2711_AsLegacy(pull) == IF pull \in {0, 1, 2} THEN pull ELSE 0

\* the 2-bit code the BCM2711 path writes for a Pull
PullCode2711(pull) ==
    CASE pull = Pulls.PullOff  -> 0
      [] pull = Pulls.PullUp   -> 1
      [] pull = Pulls.PullDown -> 2
      [] OTHER                 -> 0

pullreg(p) == 57 + (p \div 16)

pullshift(p) == (p % 16) * 2

pullClkReg(p) == p \div 32 + 38

PullMode(mem, p, pull) ==
    IF isBCM2711(mem)
    THEN GpioStore(mem, pullreg(p),
                   AndNot(mem[pullreg(p)], Shl(BitsOf(3), pullshift(p)))
                       \cup Shl(BitsOf(PullCode2711(pull)), pullshift(p)))
    ELSE LET m1 == IF pull \in {Pulls.PullDown, Pulls.PullUp}
                   THEN GpioStore(mem, 37, mem[37] \cup BitsOf(pull))
                   ELSE IF pull = Pulls.PullOff
                   THEN GpioStore(mem, 37, AndNot(mem[37], BitsOf(3)))
                   ELSE mem
             m2 == GpioStore(m1, pullClkReg(p), Shl({0}, p % 32))
             m3 == GpioStore(m2, 37, AndNot(m2[37], BitsOf(3)))
         IN  GpioStore(m3, pullClkReg(p), {})

ReadPull(mem, p) ==
    IF ~isBCM2711(mem) THEN Pulls.PullNone
    ELSE LET bits == ValOf(Shr(mem[pullreg(p)], pullshift(p)) \cap BitsOf(3)) IN
         CASE bits = 0 -> Pulls.PullOff
           [] bits = 1 -> Pulls.PullUp
           [] bits = 2 -> Pulls.PullDown
           [] OTHER    -> Pulls.PullNone

(***************************************************************************)
(* The SPI window and the hardware behind it                               *)
(***************************************************************************)
\* the bits of the control/status register that a store changes: chip select,
\* clock phase and polarity, transfer active and the other control bits; bits
\* 4 and 5 are the one-shot FIFO clears and bits 16..20 are status
SpiCtlBits == (0..3) \cup (6..15) \cup (21..25)

\* mutant: DONE is never raised
SpiLoadCs_NoDone(mem, tx, rx) ==
    mem.cs \cup (IF rx # <<>> THEN {17} ELSE {})
           \cup (IF Len(tx) < 16 THEN {18} ELSE {})

\* spiMem[csReg] as read: the control bits and the status of the FIFOs: DONE
\* (16) when the transfer is active and everything written was shifted out,
\* RXD (17) when the RX FIFO holds data, TXD (18) when the TX FIFO has room
SpiLoadCs(mem, tx, rx) ==
    mem.cs \cup (IF 7 \in mem.cs /\ tx = <<>> THEN {16} ELSE {})
           \cup (IF rx # <<>> THEN {17} ELSE {})
           \cup (IF Len(tx) < 16 THEN {18} ELSE {})

\* spiMem[csReg] = val: the control bits are stored
SpiStoreCs(mem, val) == [mem EXCEPT !.cs = val \cap SpiCtlBits]

\* the TX FIFO after spiMem[csReg] = val: bit 4 clears it
SpiStoreCsTx(tx, val) == IF 4 \in val THEN <<>> ELSE tx

\* the RX FIFO after spiMem[csReg] = val: bit 5 clears it
SpiStoreCsRx(rx, val) == IF 5 \in val THEN <<>> ELSE rx

(***************************************************************************)
(* SPI settings                                                            *)
(***************************************************************************)
\* chip select has 2 bits
csMask == BitsOf(3)

\* mutant: the new chip number is ORed into the field without clearing it
SpiChipSelect_NoClear(cs, chip) == cs \cup BitsOf(chip % 4)

\* the value SpiChipSelect stores to the control register, cs being its value
SpiChipSelect(cs, chip) == AndNot(cs, csMask) \cup BitsOf(chip % 4)

\* the value SpiChipSelectPolarity stores (cs itself where it returns early)
SpiChipSelectPolarity(cs, chip, polarity) ==
    IF chip > 2 THEN cs
    ELSE IF polarity = 0 THEN AndNot(cs, Shl({0}, 21 + chip))
    ELSE cs \cup Shl({0}, 21 + chip)

\* the value the control register holds after the two stores of SpiMode
SpiMode(cs, polarity, phase) ==
    LET c1 == IF polarity = 0 THEN AndNot(cs, {3}) ELSE cs \cup {3}
    IN  IF phase = 0 THEN AndNot(c1, {2}) ELSE c1 \cup {2}

\* SpiSpeed(speed): what setSpiDiv stores to the divider register,
\* uint32(baseFreq / speed) & divMask, or a panic where the division is by zero
SpiSpeed(speed) ==
    IF speed = 0 THEN [panic |-> TRUE, div |-> {}]
    ELSE [panic |-> FALSE,
          div   |-> BitsOf(TruncDiv(250000000, speed) % 65536) \cap (1..15)]

(***************************************************************************)
(* SPI transfer                                                            *)
(***************************************************************************)
\* spiMem[fifoReg] = val: the low byte enters the TX FIFO if it has room
SpiStoreFifo(tx, val) == IF Len(tx) < 16 THEN Append(tx, val % 256) ELSE tx

\* spiMem[fifoReg] as read: the oldest byte of the RX FIFO (0 if it is empty)
SpiLoadFifo(rx) == IF rx # <<>> THEN Head(rx) ELSE 0

\* the byte a slave in loopback (MISO tied to MOSI) returns for byte b
Loopback(b) == b

\* mutant: only the TX FIFO is cleared
clearTxRx_TxOnly == {4}

\* the two FIFO clear bits, 1<<5 | 1<<4
clearTxRx == {4, 5}

(***************************************************************************)
(* SPI setup and teardown                                                  *)
(***************************************************************************)
\* mutant: both pin sets of Spi0
getSpiPins_BothSets(dev) ==
    CASE dev = 0 -> <<7, 8, 9, 10, 11, 35, 36, 37, 38, 39>>
      [] dev = 1 -> <<16, 17, 18, 19, 20, 21>>
      [] dev = 2 -> <<40, 41, 42, 43, 44, 45>>
      [] OTHER   -> <<>>

\* the pins of an SPI device (Spi0 = 0, Spi1 = 1, Spi2 = 2), none for another
getSpiPins(dev) ==
    CASE dev = 0 -> <<7, 8, 9, 10, 11>>
      [] dev = 1 -> <<16, 17, 18, 19, 20, 21>>
      [] dev = 2 -> <<40, 41, 42, 43, 44, 45>>
      [] OTHER   -> <<>>

RECURSIVE PinModeAll(_, _, _)
\* for _, pin := range pins { pin.Mode(mode) }
PinModeAll(mem, pins, mode) ==
    IF pins = <<>> THEN mem
    ELSE PinModeAll(PinMode(mem, Head(pins), mode), Tail(pins), mode)

\* mutant: the read-back check is passed whatever is read
SpiBegin_NoCheck(mem, tx, rx, gpio, dev) ==
    LET m0 == IF mem.live THEN SpiStoreCs(mem, {}) ELSE mem
        rb == IF mem.live THEN SpiLoadCs(m0, tx, rx) ELSE {}
        v  == rb \cup clearTxRx
    IN  [err |-> "nil", rb |-> rb,
         mem |-> IF mem.live
                 THEN [SpiStoreCs(m0, v) EXCEPT !.div = BitsOf(128) \cap (1..15)]
                 ELSE mem,
         tx |-> IF mem.live THEN SpiStoreCsTx(tx, v) ELSE tx,
         rx |-> IF mem.live THEN SpiStoreCsRx(rx, v) ELSE rx,
         gpio |-> PinModeAll(gpio, getSpiPins(dev), "Spi"),
         stores |-> <<<<"cs", {}>>, <<"cs", v>>, <<"div", BitsOf(128) \cap (1..15)>>>>]

\* SpiBegin(dev): the control register is stored 0 and read back (rb); if it
\* reads 0 the call returns SpiMapError, else the pins of dev are set to Spi,
\* clearSpiTxRxFifo() stores rb | clearTxRx and setSpiDiv(128) stores
\* 128 & divMask. Where no peripheral answers, stores are lost and loads give 0
SpiBegin(mem, tx, rx, gpio, dev) ==
    LET m0 == IF mem.live THEN SpiStoreCs(mem, {}) ELSE mem
        rb == IF mem.live THEN SpiLoadCs(m0, tx, rx) ELSE {}
        v  == rb \cup clearTxRx
    IN  IF rb = {}
        THEN [err |-> "SpiMapError", rb |-> rb, mem |-> m0, tx |-> tx, rx |-> rx,
              gpio |-> gpio, stores |-> <<<<"cs", {}>>>>]
        ELSE [err |-> "nil", rb |-> rb,
              mem |-> [SpiStoreCs(m0, v) EXCEPT !.div = BitsOf(128) \cap (1..15)],
              tx |-> SpiStoreCsTx(tx, v),
              rx |-> SpiStoreCsRx(rx, v),
              gpio |-> PinModeAll(gpio, getSpiPins(dev), "Spi"),
              stores |-> <<<<"cs", {}>>, <<"cs", v>>,
                           <<"div", BitsOf(128) \cap (1..15)>>>>]

(***************************************************************************)
(* The clock and PWM windows and the hardware behind them                  *)
(***************************************************************************)
\* the words of the clock window SetFreq addresses: control 28, 30, 32, 40 and
\* divider 29, 31, 33, 41
ClkRegs == 28..41

ClkCtlRegs == {28, 30, 32, 40}

\* the words of the PWM window: control 0, range 4 and 8, data 5 and 9
PwmRegs == {0, 4, 5, 8, 9}

\* 0x5A000000
PASSWORD == {25, 27, 28, 30}

\* clkMem[reg] = val as the clock manager takes it: a store without the
\* password in bits 24..31 is ignored; the busy bit (7) of a control register
\* is status and keeps its value
ClkStore(mem, reg, val) ==
    IF val \cap (24..31) # PASSWORD THEN mem
    ELSE IF reg \in ClkCtlRegs
    THEN [mem EXCEPT ![reg] = (val \cap ((0..10) \ {7})) \cup (mem[reg] \cap {7})]
    ELSE [mem EXCEPT ![reg] = val \cap (0..23)]

\* no call of SetFreq is running; bits is the width of the build's int
ClkIdle ==
    [pc |-> "idle", pin |-> 0, freq |-> 0, log |-> <<>>, calls |-> 0, bits |-> 64]

(***************************************************************************)
(* Clock frequency                                                         *)
(***************************************************************************)
\* oscilator frequency
sourceFreq == 19200000

\* divi and divf have 12 bits each
divMask == 4095

\* uint32(sourceFreq / freq) & divMask
Divi(freq) == TruncDiv(sourceFreq, freq) % (divMask + 1)

RECURSIVE FracBits(_, _, _)
\* floor(rem * 2^n / freq) for 0 <= rem < freq, one binary digit at a time (the
\* product rem << 12 itself is beyond the model checker's integers)
FracBits(rem, freq, n) ==
    IF n = 0 THEN 0
    ELSE IF 2 * rem >= freq
         THEN 2 ^ (n - 1) + FracBits(2 * rem - freq, freq, n - 1)
         ELSE FracBits(2 * rem, freq, n - 1)

\* uint32(((sourceFreq % freq) << 12) / freq) & divMask, int being bits wide;
\* the remainder has the sign of sourceFreq, the quotient that of freq. With
\* a 64-bit int the shift is exact; with a 32-bit int the shifted value is
\* the low 32 bits of the product, read as a signed number.
Divf(freq, bits) ==
    LET a   == IF freq < 0 THEN -freq ELSE freq
        rem == sourceFreq % a
        q   == FracBits(rem, a, 12)
        low == rem % 1048576
        shl == IF low >= 524288 THEN (low - 1048576) * 4096 ELSE low * 4096
    IN  IF bits = 32 THEN TruncDiv(shl, freq) % (divMask + 1)
        ELSE (IF freq < 0 THEN -q ELSE q) % (divMask + 1)

\* 1-stage MASH (1 << 9), or 0 when divi < 2 or divf = 0
Mash(freq, bits) == IF Divi(freq) < 2 \/ Divf(freq, bits) = 0 THEN {} ELSE {9}

\* mutant: pins 20 and 21 each in the other one's group
ClkGroup_Swap2021(p) ==
    CASE p \in {4, 21, 32, 34} -> [ctl |-> 28, div |-> 29, pwm |-> FALSE]
      [] p \in {5, 20, 42, 44} -> [ctl |-> 30, div |-> 31, pwm |-> FALSE]
      [] p \in {6, 43}         -> [ctl |-> 32, div |-> 33, pwm |-> FALSE]
      [] p \in {12, 13, 40, 41, 45, 18, 19}
                               -> [ctl |-> 40, div |-> 41, pwm |-> TRUE]
      [] OTHER                 -> [ctl |-> -1, div |-> -1, pwm |-> FALSE]

\* switch pin: clkCtlReg and clkDivReg of the pin's clock, whether it is the
\* clock of the PWM channels, and ctl = -1 where SetFreq returns
ClkGroup(p) ==
    CASE p \in {4, 20, 32, 34} -> [ctl |-> 28, div |-> 29, pwm |-> FALSE]
      [] p \in {5, 21, 42, 44} -> [ctl |-> 30, div |-> 31, pwm |-> FALSE]
      [] p \in {6, 43}         -> [ctl |-> 32, div |-> 33, pwm |-> FALSE]
      [] p \in {12, 13, 40, 41, 45, 18, 19}
                               -> [ctl |-> 40, div |-> 41, pwm |-> TRUE]
      [] OTHER                 -> [ctl |-> -1, div |-> -1, pwm |-> FALSE]

\* pwmMem[pwmCtlReg] &^= pwen<<8 | pwen
StopPwm(pm) == [pm EXCEPT ![0] = AndNot(@, {0, 8})]

\* pwmMem[pwmCtlReg] |= pwen<<8 | pwen
StartPwm(pm) == [pm EXCEPT ![0] = @ \cup {0, 8}]

\* mutant: a pin of no channel is taken for a pin of channel pwm0
SetDutyCycle_Default0(pm, p, dutyLen, cycleLen) ==
    LET ch == IF p \in {13, 19, 41, 45} THEN [rng |-> 8, dat |-> 9, shift |-> 8]
              ELSE [rng |-> 4, dat |-> 5, shift |-> 0]
    IN  [pm EXCEPT ![0] = AndNot(@, Shl(BitsOf(255), ch.shift))
                              \cup Shl({7}, ch.shift) \cup Shl({0}, ch.shift),
                   ![ch.dat] = BitsOf(dutyLen),
                   ![ch.rng] = BitsOf(cycleLen)]

\* SetDutyCycle(p, dutyLen, cycleLen): the PWM window after it. A pin of no
\* channel returns before any store; else the channel's 8 control bits are
\* reset to msen | pwen, and data and range are stored
SetDutyCycle(pm, p, dutyLen, cycleLen) ==
    LET ch == CASE p \in {12, 18, 40}     -> [rng |-> 4, dat |-> 5, shift |-> 0]
                [] p \in {13, 19, 41, 45} -> [rng |-> 8, dat |-> 9, shift |-> 8]
                [] OTHER                  -> [rng |-> -1, dat |-> -1, shift |-> 0]
    IN  IF ch.rng = -1 THEN pm
        ELSE [pm EXCEPT ![0] = AndNot(@, Shl(BitsOf(255), ch.shift))
                                   \cup Shl({7}, ch.shift) \cup Shl({0}, ch.shift),
                        ![ch.dat] = BitsOf(dutyLen),
                        ![ch.rng] = BitsOf(cycleLen)]

\* the store SetFreq(p, freq) makes at step pc, the windows being cm and pm:
\* <<window, word, value>>, or <<>> where the step stores nothing
SetFreqWrite(pc, p, freq, bits, cm, pm) ==
    LET g == ClkGroup(p) IN
    CASE pc = "stoppwm"  -> IF g.pwm THEN <<"pwm", 0, StopPwm(pm)[0]>> ELSE <<>>
      [] pc = "stop"     -> <<"clk", g.ctl, PASSWORD \cup AndNot(cm[g.ctl], {4})>>
      [] pc = "src"      -> <<"clk", g.ctl, PASSWORD \cup Mash(freq, bits) \cup {0}>>
      [] pc = "div"      -> <<"clk", g.div, PASSWORD \cup Shl(BitsOf(Divi(freq)), 12)
                                                \cup BitsOf(Divf(freq, bits))>>
      [] pc = "enab"     -> <<"clk", g.ctl, PASSWORD \cup Mash(freq, bits) \cup {0} \cup {4}>>
      [] pc = "startpwm" -> IF g.pwm THEN <<"pwm", 0, StartPwm(pm)[0]>> ELSE <<>>
      [] OTHER           -> <<>>

\* mutant: the clock is enabled before the divider is stored
SetFreqNext_EnableFirst(pc) ==
    CASE pc = "stoppwm" -> "stop"
      [] pc = "stop"    -> "busy"
      [] pc = "busy"    -> "src"
      [] pc = "src"     -> "enab"
      [] pc = "enab"    -> "div"
      [] pc = "div"     -> "startpwm"
      [] OTHER          -> "idle"

\* the step after pc in SetFreq
SetFreqNext(pc) ==
    CASE pc = "stoppwm" -> "stop"
      [] pc = "stop"    -> "busy"
      [] pc = "busy"    -> "src"
      [] pc = "src"     -> "div"
      [] pc = "div"     -> "enab"
      [] pc = "enab"    -> "startpwm"
      [] OTHER          -> "idle"

(***************************************************************************)
(* The calls as the threads of a process run them: the register accesses   *)
(* and lock operations of a call, in program order                         *)
(***************************************************************************)
\* one step of a call: k is "lock", "unlock", "load" (tmp = w[r]), "store"
\* (w[r] = (tmp &^ clr) | set; clr = AllOnes for a store that uses no loaded
\* value), "await" (re-read w[r] until none of the bits in set is 1),
\* "toggle" (the bits of set are stored to w[r + 3] if tmp has them and to
\* w[r] if not), "mmap" / "munmap" (of the r-th window; on an error the call
\* goes on at its deferred unlock, and with w = "ret" it returns), "backup" (irqsBackup = tmp | w[r]) or
\* "restore" (w[r] = the lines of irqsBackup in that word; a panic, which
\* leaves the call beyond its return, on a window that is not mapped);
\* w is the window: "g" gpioMem, "c" clkMem, "p" pwmMem, "s" spiMem (r = 0 is
\* csReg), "i" intrMem (r = 132, 133 the enable and 135, 136 the disable
\* registers; a value holds the numbers 0..63 of the IRQ lines of its word)
Ins(k, w, r, clr, set) == [k |-> k, w |-> w, r |-> r, clr |-> clr, set |-> set]

\* the steps of the call c = [op, pin, arg], is2711 being what isBCM2711()
\* returns; <<>> for a call that returns before its first access
Prog(c, is2711) ==
    LET p    == c.pin
        lock == Ins("lock", "", 0, {}, {})
        unlk == Ins("unlock", "", 0, {}, {})
        stop == <<Ins("load", "p", 0, {}, {}), Ins("store", "p", 0, {0, 8}, {})>>
        strt == <<Ins("load", "p", 0, {}, {}), Ins("store", "p", 0, {}, {0, 8})>>
    IN
    CASE c.op = "PinMode" ->
           LET f == FuncCode(p, c.arg) IN
           IF f = -1 THEN <<>>
           ELSE <<lock,
                  Ins("load", "g", fselReg(p), {}, {}),
                  Ins("store", "g", fselReg(p), Shl(pinMask, fselShift(p)),
                      Shl(BitsOf(f), fselShift(p))),
                  unlk>>
      [] c.op = "PullMode" ->
           IF is2711
           THEN <<lock,
                  Ins("load", "g", 60, {}, {}),
                  Ins("load", "g", pullreg(p), {}, {}),
                  Ins("store", "g", pullreg(p), Shl(BitsOf(3), pullshift(p)),
                      Shl(BitsOf(PullCode2711(c.arg)), pullshift(p))),
                  unlk>>
           ELSE <<lock, Ins("load", "g", 60, {}, {})>>
                \o (IF c.arg \in {Pulls.PullDown, Pulls.PullUp}
                    THEN <<Ins("load", "g", 37, {}, {}),
                           Ins("store", "g", 37, {}, BitsOf(c.arg))>>
                    ELSE IF c.arg = Pulls.PullOff
                    THEN <<Ins("load", "g", 37, {}, {}),
                           Ins("store", "g", 37, BitsOf(3), {})>>
                    ELSE <<>>)
                \o <<Ins("store", "g", pullClkReg(p), AllOnes, Shl({0}, p % 32)),
                      Ins("load", "g", 37, {}, {}),
                      Ins("store", "g", 37, BitsOf(3), {}),
                      Ins("store", "g", pullClkReg(p), AllOnes, {}),
                      unlk>>
      [] c.op = "SetFreq" ->
           LET g == ClkGroup(p) IN
           IF g.ctl = -1 THEN <<>>
           ELSE (IF g.pwm THEN stop ELSE <<>>)
                \o <<lock,
                      Ins("load", "c", g.ctl, {}, {}),
                      Ins("store", "c", g.ctl, {4}, PASSWORD),
                      Ins("await", "c", g.ctl, {}, {7}),
                      Ins("store", "c", g.ctl, AllOnes,
                          PASSWORD \cup Mash(c.arg, clk.bits) \cup {0}),
                      Ins("store", "c", g.div, AllOnes,
                          PASSWORD \cup Shl(BitsOf(Divi(c.arg)), 12)
                              \cup BitsOf(Divf(c.arg, clk.bits))),
                      Ins("store", "c", g.ctl, AllOnes,
                          PASSWORD \cup Mash(c.arg, clk.bits) \cup {0} \cup {4}),
                      unlk>>
                \o (IF g.pwm THEN strt ELSE <<>>)
      [] c.op = "SetDutyCycle" ->
           LET sh == IF p \in {12, 18, 40} THEN 0 ELSE 8 IN
           IF p \notin {12, 18, 40, 13, 19, 41, 45} THEN <<>>
           ELSE <<Ins("load", "p", 0, {}, {}),
                  Ins("store", "p", 0, Shl(BitsOf(255), sh), Shl({0, 7}, sh)),
                  Ins("store", "p", IF sh = 0 THEN 5 ELSE 9, AllOnes, BitsOf(c.arg[1])),
                  Ins("store", "p", IF sh = 0 THEN 4 ELSE 8, AllOnes, BitsOf(c.arg[2]))>>
      [] c.op = "StopPwm"  -> stop
      [] c.op = "StartPwm" -> strt
      [] c.op = "DetectEdge" ->
           LET bit == Shl({0}, p % 32) IN
           (IF c.arg # Edges.NoEdge
            THEN <<Ins("store", "i", 135, AllOnes, {}),
                   Ins("store", "i", 136, AllOnes, {49, 52})>>
            ELSE <<>>)
           \o <<Ins("load", "g", renReg(p), {}, {}),
                 IF HasRise(c.arg) THEN Ins("store", "g", renReg(p), {}, bit)
                 ELSE Ins("store", "g", renReg(p), bit, {}),
                 Ins("load", "g", fenReg(p), {}, {}),
                 IF HasFall(c.arg) THEN Ins("store", "g", fenReg(p), {}, bit)
                 ELSE Ins("store", "g", fenReg(p), bit, {}),
                 Ins("store", "g", edsReg(p), AllOnes, bit)>>
      [] c.op = "SpiChipSelect" ->
           <<Ins("load", "s", 0, {}, {}),
             Ins("store", "s", 0, csMask, BitsOf(c.arg % 4))>>
      [] c.op = "SpiMode" ->
           <<Ins("load", "s", 0, {}, {}),
             IF c.arg[1] = 0 THEN Ins("store", "s", 0, {3}, {})
             ELSE Ins("store", "s", 0, {}, {3}),
             Ins("load", "s", 0, {}, {}),
             IF c.arg[2] = 0 THEN Ins("store", "s", 0, {2}, {})
             ELSE Ins("store", "s", 0, {}, {2})>>
      [] c.op = "WritePin" ->
           <<lock,
             Ins("store", "g", IF c.arg = "Low" THEN clearReg(p) ELSE setReg(p),
                 AllOnes, PinBit(p)),
             unlk>>
      [] c.op = "TogglePin" ->
           <<lock,
             Ins("load", "g", levelReg(p), {}, {}),
             Ins("toggle", "g", setReg(p), AllOnes, PinBit(p)),
             unlk>>
      [] c.op = "EnableIRQs" ->
           <<Ins("store", "i", 132, AllOnes, {l \in c.arg : l < 32}),
             Ins("store", "i", 133, AllOnes, {l \in c.arg : l >= 32})>>
      [] c.op = "DisableIRQs" ->
           <<Ins("store", "i", 135, AllOnes, {l \in c.arg : l < 32}),
             Ins("store", "i", 136, AllOnes, {l \in c.arg : l >= 32})>>
      [] c.op = "Open" ->
           IF c.arg[1] THEN <<>>
           ELSE <<lock>>
                \o [k \in 1..5 |-> Ins("mmap", "", k, {}, {})]
                \o <<Ins("load", "i", 133, {}, {}),
                      Ins("backup", "i", 132, {}, {}),
                      unlk>>
      [] c.op = "rpio/Open" ->
           \* Open of src/rpio/rpio.go: Lock, Mmap of the GPIO window with
           \* `if err != nil { return }`, Unlock
           IF c.arg[1] THEN <<>>
           ELSE <<lock, Ins("mmap", "ret", 1, {}, {}), unlk>>
      [] c.op = "Close" ->
           <<Ins("restore", "i", 132, {}, {}),
             Ins("restore", "i", 133, {}, {}),
             lock>>
           \o [k \in 1..5 |-> Ins("munmap", "", k, {}, {})]
           \o <<unlk>>
      [] OTHER -> <<>>

(***************************************************************************)
(* Base address discovery                                                  *)
(***************************************************************************)
bcm2835Base == {29}

\* mutant: the four bytes taken least significant first
BigEndian_Little(b) ==
    Shl(BitsOf(b[4]), 24) \cup Shl(BitsOf(b[3]), 16)
        \cup Shl(BitsOf(b[2]), 8) \cup BitsOf(b[1])

\* binary.Read(buf, binary.BigEndian, &out) of four bytes
BigEndian(b) ==
    Shl(BitsOf(b[1]), 24) \cup Shl(BitsOf(b[2]), 16)
        \cup Shl(BitsOf(b[3]), 8) \cup BitsOf(b[4])

\* readBase(offset) with the translation file being file: the file cannot be
\* opened, or fewer than 4 bytes are read at the offset (ReadAt then reports
\* io.EOF), or the value is 0: an error; else the value
readBase(file, offset) ==
    IF ~file.exists \/ Len(file.bytes) < offset + 4
    THEN [out |-> {}, err |-> TRUE]
    ELSE LET out == BigEndian(SubSeq(file.bytes, offset + 1, offset + 4))
         IN  [out |-> out, err |-> out = {}]

getBase(file) ==
    LET b4 == readBase(file, 4)
        b8 == readBase(file, 8)
    IN  IF ~b4.err THEN b4.out
        ELSE IF ~b8.err THEN b8.out
        ELSE bcm2835Base

(***************************************************************************)
(* Initial states                                                          *)
(***************************************************************************)
\* the pull fields of a BCM2711 at start: every pin Off, Up or Down (the code
\* 3 is reserved and nothing writes it)
PullInit(cfg) == IF cfg = AllOnes THEN {i \in Word : i % 2 = 1} ELSE cfg

\* the GPIO window at start: the configuration registers hold cfg, the level
\* and event-status registers hold sts, set / clear registers read 0, and words
\* 57..60 hold pull fields on a BCM2711 and the sentinel on the legacy chips
GpioInit(cfg, sts, is2711) ==
    [r \in GpioRegs |->
        IF r \in {13, 14, 16, 17} THEN sts
        ELSE IF r \in {7, 8, 10, 11} \cup GpioReserved THEN {}
        ELSE IF r \in 57..60 THEN (IF is2711 THEN PullInit(cfg) ELSE Sentinel)
        ELSE IF r > 40 THEN {}
        ELSE cfg]

\* the call record after one more call
Record(c) == prev' = last /\ last' = c

SpiQuiet ==
    /\ spiMem = [cs |-> {}, div |-> {}]
    /\ txFifo = <<>>
    /\ rxFifo = <<>>
    /\ spi = [pc |-> "idle", data |-> <<>>, i |-> 0]

\* no translation file, nothing mapped, the lock free, no thread in a call
OsQuiet ==
    /\ ranges = [exists |-> FALSE, bytes |-> <<>>]
    /\ proc = [mapped |-> {}, irqsBackup |-> {}]
    /\ memlock = "free"
    /\ thr = [t \in {"a", "b"} |-> [call |-> None, pc |-> 1, tmp |-> {}, n |-> 0, prog |-> <<>>]]

ClkQuiet ==
    /\ clkMem = [r \in ClkRegs |-> {}]
    /\ pwmMem = [r \in PwmRegs |-> {}]
    /\ clk = ClkIdle

GpioQuiet ==
    /\ gpioMem = GpioInit({}, {}, FALSE)
    /\ hw2711 = FALSE
    /\ pin = 0

(***************************************************************************)
(* Pin level: WritePin, ReadPin, TogglePin on one pin                      *)
(***************************************************************************)
CallWritePin(state) ==
    /\ gpioMem' = WritePin(gpioMem, pin, state)
    /\ Record(Call("WritePin", pin, state, "", ""))
    /\ UNCHANGED <<hw2711, pin, spiVars, clkVars, intrMem, armed, osVars>>

CallReadPin ==
    /\ Record(Call("ReadPin", pin, "", ReadPin(gpioMem, pin), ""))
    /\ UNCHANGED <<gpioVars, pin, spiVars, clkVars, intrMem, armed, osVars>>

CallTogglePin ==
    /\ gpioMem' = TogglePin(gpioMem, pin)
    /\ Record(Call("TogglePin", pin, "", "", ReadPin(gpioMem, pin)))
    /\ UNCHANGED <<hw2711, pin, spiVars, clkVars, intrMem, armed, osVars>>

InitLevel ==
    /\ pin \in Pins
    /\ hw2711 = FALSE
    /\ \E cfg \in Fills, sts \in Fills : gpioMem = GpioInit(cfg, sts, hw2711)
    /\ prev = None
    /\ last = None
    /\ intrMem = {}
    /\ armed = -1
    /\ OsQuiet
    /\ SpiQuiet
    /\ ClkQuiet

NextLevel ==
    \/ \E state \in States : CallWritePin(state)
    \/ CallReadPin
    \/ CallTogglePin

SpecLevel == InitLevel /\ [][NextLevel]_vars

(***************************************************************************)
(* Pin mode: PinMode, ReadPinMode on one pin                               *)
(***************************************************************************)
CallPinMode(mode) ==
    /\ gpioMem' = PinMode(gpioMem, pin, mode)
    /\ Record(Call("PinMode", pin, mode, "", ""))
    /\ UNCHANGED <<hw2711, pin, spiVars, clkVars, intrMem, armed, osVars>>

CallReadPinMode ==
    /\ Record(Call("ReadPinMode", pin, "", ReadPinMode(gpioMem, pin), ""))
    /\ UNCHANGED <<gpioVars, pin, spiVars, clkVars, intrMem, armed, osVars>>

InitMode ==
    /\ pin \in Pins
    /\ hw2711 = FALSE
    /\ \E cfg \in Fills : gpioMem = GpioInit(cfg, {}, hw2711)
    /\ prev = None
    /\ last = None
    /\ intrMem = {}
    /\ armed = -1
    /\ OsQuiet
    /\ SpiQuiet
    /\ ClkQuiet

NextMode ==
    \/ \E mode \in Modes : CallPinMode(mode)
    \/ CallReadPinMode

SpecMode == InitMode /\ [][NextMode]_vars

(***************************************************************************)
(* Edge detection: DetectEdge, EdgeDetected and level transitions on a pin *)
(***************************************************************************)
CallDetectEdge(edge) ==
    /\ gpioMem' = DetectEdge(gpioMem, pin, edge)
    /\ intrMem' = DetectEdgeIrq(intrMem, edge)
    /\ armed' = edge
    /\ Record(Call("DetectEdge", pin, edge, "", EdgeDetectedRet(gpioMem, pin)))
    /\ UNCHANGED <<hw2711, pin, spiVars, clkVars, osVars>>

CallEdgeDetected ==
    /\ gpioMem' = EdgeDetected(gpioMem, pin)
    /\ Record(Call("EdgeDetected", pin, "", EdgeDetectedRet(gpioMem, pin), ""))
    /\ UNCHANGED <<hw2711, pin, spiVars, clkVars, intrMem, armed, osVars>>

\* the electrical level of the pin changes (the line is driven from outside,
\* as by the source pin wired to it in the tests)
Transition ==
    /\ gpioMem' = LevelChange(gpioMem, pin \div 32,
                              IF ReadPin(gpioMem, pin) = "Low"
                              THEN gpioMem[levelReg(pin)] \cup PinBit(pin)
                              ELSE gpioMem[levelReg(pin)] \ PinBit(pin))
    /\ Record(Call("Transition", pin,
                   IF ReadPin(gpioMem, pin) = "Low" THEN "Rise" ELSE "Fall",
                   "", EdgeDetectedRet(gpioMem, pin)))
    /\ UNCHANGED <<hw2711, pin, spiVars, clkVars, intrMem, armed, osVars>>

InitEdge ==
    /\ pin \in Pins
    /\ hw2711 = FALSE
    /\ \E cfg \in Fills, sts \in Fills : gpioMem = GpioInit(cfg, sts, hw2711)
    /\ prev = None
    /\ last = None
    /\ intrMem = {49, 50, 51, 52}
    /\ armed = -1
    /\ OsQuiet
    /\ SpiQuiet
    /\ ClkQuiet

NextEdge ==
    \/ \E edge \in {Edges.NoEdge, Edges.RiseEdge, Edges.FallEdge, Edges.AnyEdge} :
           CallDetectEdge(edge)
    \/ CallEdgeDetected
    \/ Transition

SpecEdge == InitEdge /\ [][NextEdge]_vars

(***************************************************************************)
(* Pull up / down: PullMode, ReadPull on one pin, on either hardware       *)
(***************************************************************************)
CallPullMode(pull) ==
    /\ gpioMem' = PullMode(gpioMem, pin, pull)
    /\ Record(Call("PullMode", pin, pull, "", ""))
    /\ UNCHANGED <<hw2711, pin, spiVars, clkVars, intrMem, armed, osVars>>

CallReadPull ==
    /\ Record(Call("ReadPull", pin, "", ReadPull(gpioMem, pin), ""))
    /\ UNCHANGED <<gpioVars, pin, spiVars, clkVars, intrMem, armed, osVars>>

InitPull ==
    /\ pin \in 0..MaxPullPin
    /\ hw2711 \in BOOLEAN
    /\ \E cfg \in Fills : gpioMem = GpioInit(cfg, {}, hw2711)
    /\ prev = None
    /\ last = None
    /\ intrMem = {}
    /\ armed = -1
    /\ OsQuiet
    /\ SpiQuiet
    /\ ClkQuiet

NextPull ==
    \/ \E pull \in {Pulls.PullOff, Pulls.PullDown, Pulls.PullUp, Pulls.PullNone} :
           CallPullMode(pull)
    \/ CallReadPull

SpecPull == InitPull /\ [][NextPull]_vars

(***************************************************************************)
(* The revision probe: PullMode and ReadPull on the pins whose fields are  *)
(* in the word isBCM2711() reads                                           *)
(***************************************************************************)
\* pins with a field in word 60: the first two, and one beyond bit 19
ProbePins == {48, 49, 58}

CallPullModeOn(p, pull) ==
    /\ pin' = p
    /\ gpioMem' = PullMode(gpioMem, p, pull)
    /\ Record(Call("PullMode", p, pull, isBCM2711(gpioMem), ""))
    /\ UNCHANGED <<hw2711, spiVars, clkVars, intrMem, armed, osVars>>

CallReadPullOn(p) ==
    /\ pin' = p
    /\ Record(Call("ReadPull", p, ReadPull(gpioMem, p), isBCM2711(gpioMem), ""))
    /\ UNCHANGED <<gpioVars, spiVars, clkVars, intrMem, armed, osVars>>

SpecProbe ==
    /\ InitPull
    /\ [][\/ \E p \in ProbePins, pull \in {Pulls.PullOff, Pulls.PullDown,
                                            Pulls.PullUp, Pulls.PullNone} :
                 CallPullModeOn(p, pull)
          \/ \E p \in ProbePins : CallReadPullOn(p)]_vars

(***************************************************************************)
(* SPI settings: SpiChipSelect, SpiChipSelectPolarity, SpiMode             *)
(***************************************************************************)
\* the caller stores val to the control register
StoreCs(val) ==
    /\ spiMem' = SpiStoreCs(spiMem, val)
    /\ txFifo' = SpiStoreCsTx(txFifo, val)
    /\ rxFifo' = SpiStoreCsRx(rxFifo, val)

CallSpiChipSelect(chip) ==
    /\ spi.pc = "idle"
    /\ StoreCs(SpiChipSelect(SpiLoadCs(spiMem, txFifo, rxFifo), chip))
    /\ last' = Call("SpiChipSelect", 0, chip, "", "")
    /\ UNCHANGED <<gpioVars, pin, prev, spi, clkVars, intrMem, armed, osVars>>

CallSpiChipSelectPolarity(chip, polarity) ==
    /\ spi.pc = "idle"
    /\ StoreCs(SpiChipSelectPolarity(SpiLoadCs(spiMem, txFifo, rxFifo),
                                     chip, polarity))
    /\ last' = Call("SpiChipSelectPolarity", 0, <<chip, polarity>>, "", "")
    /\ UNCHANGED <<gpioVars, pin, prev, spi, clkVars, intrMem, armed, osVars>>

\* SpiMode stores the polarity bit and then the phase bit; the second store
\* reads the control register the first one left
CallSpiMode(polarity, phase) ==
    /\ spi.pc = "idle"
    /\ StoreCs(SpiMode(SpiLoadCs(spiMem, txFifo, rxFifo), polarity, phase))
    /\ last' = Call("SpiMode", 0, <<polarity, phase>>, "", "")
    /\ UNCHANGED <<gpioVars, pin, prev, spi, clkVars, intrMem, armed, osVars>>

InitSpiCtl ==
    /\ GpioQuiet
    /\ prev = None
    /\ last = None
    /\ intrMem = {}
    /\ armed = -1
    /\ OsQuiet
    /\ \E fill \in Fills : spiMem = [cs |-> fill \cap SpiCtlBits, div |-> {}]
    /\ txFifo = <<>>
    /\ rxFifo \in {<<>>, <<0>>}
    /\ spi = [pc |-> "idle", data |-> <<>>, i |-> 0]
    /\ ClkQuiet

NextSpiCtl ==
    \/ \E chip \in {0, 1, 2, 3, 6, 255} : CallSpiChipSelect(chip)
    \/ \E chip \in {0, 1, 2, 3, 255}, polarity \in {0, 1, 2} :
           CallSpiChipSelectPolarity(chip, polarity)
    \/ \E polarity \in {0, 1}, phase \in {0, 1, 2} : CallSpiMode(polarity, phase)

SpecSpiCtl == InitSpiCtl /\ [][NextSpiCtl]_vars

(***************************************************************************)
(* SPI transfer: SpiExchange step by step, and the slave in loopback       *)
(***************************************************************************)
\* SpiExchange(data) is called: clearSpiTxRxFifo()
ExchangeClear(data) ==
    /\ spi.pc = "idle"
    /\ StoreCs(SpiLoadCs(spiMem, txFifo, rxFifo) \cup clearTxRx)
    /\ spi' = [pc |-> "ta", data |-> data, i |-> 1]
    /\ last' = Call("SpiExchange", 0, data, <<>>, "")
    /\ UNCHANGED <<gpioVars, pin, prev, clkVars, intrMem, armed, osVars>>

\* spiMem[csReg] |= ta
ExchangeSetTA ==
    /\ spi.pc = "ta"
    /\ StoreCs(SpiLoadCs(spiMem, txFifo, rxFifo) \cup {7})
    /\ spi' = [spi EXCEPT !.pc = IF Len(spi.data) = 0 THEN "done" ELSE "txd"]
    /\ UNCHANGED <<gpioVars, pin, prev, last, clkVars, intrMem, armed, osVars>>

\* for spiMem[csReg]&txd == 0 {}: the loop ends when TXD is read as 1
ExchangeWaitTxd ==
    /\ spi.pc = "txd"
    /\ 18 \in SpiLoadCs(spiMem, txFifo, rxFifo)
    /\ spi' = [spi EXCEPT !.pc = "put"]
    /\ UNCHANGED <<gpioVars, pin, prev, last, spiMem, txFifo, rxFifo,
                   clkVars, intrMem, armed, osVars>>

\* spiMem[fifoReg] = uint32(data[i])
ExchangePut ==
    /\ spi.pc = "put"
    /\ txFifo' = SpiStoreFifo(txFifo, spi.data[spi.i])
    /\ spi' = [spi EXCEPT !.pc = "rxd"]
    /\ UNCHANGED <<gpioVars, pin, prev, last, spiMem, rxFifo,
                   clkVars, intrMem, armed, osVars>>

\* for spiMem[csReg]&rxd == 0 {}: the loop ends when RXD is read as 1
ExchangeWaitRxd ==
    /\ spi.pc = "rxd"
    /\ 17 \in SpiLoadCs(spiMem, txFifo, rxFifo)
    /\ spi' = [spi EXCEPT !.pc = "get"]
    /\ UNCHANGED <<gpioVars, pin, prev, last, spiMem, txFifo, rxFifo,
                   clkVars, intrMem, armed, osVars>>

\* data[i] = byte(spiMem[fifoReg]), and the next i
ExchangeGet ==
    /\ spi.pc = "get"
    /\ rxFifo' = IF rxFifo # <<>> THEN Tail(rxFifo) ELSE rxFifo
    /\ spi' = [pc   |-> IF spi.i = Len(spi.data) THEN "done" ELSE "txd",
               data |-> [spi.data EXCEPT ![spi.i] = SpiLoadFifo(rxFifo) % 256],
               i    |-> spi.i + 1]
    /\ UNCHANGED <<gpioVars, pin, prev, last, spiMem, txFifo,
                   clkVars, intrMem, armed, osVars>>

\* for spiMem[csReg]&done == 0 {}: the loop ends when DONE is read as 1
ExchangeWaitDone ==
    /\ spi.pc = "done"
    /\ 16 \in SpiLoadCs(spiMem, txFifo, rxFifo)
    /\ spi' = [spi EXCEPT !.pc = "taoff"]
    /\ UNCHANGED <<gpioVars, pin, prev, last, spiMem, txFifo, rxFifo,
                   clkVars, intrMem, armed, osVars>>

\* spiMem[csReg] &^= ta, and SpiExchange returns
ExchangeClearTA ==
    /\ spi.pc = "taoff"
    /\ StoreCs(AndNot(SpiLoadCs(spiMem, txFifo, rxFifo), {7}))
    /\ spi' = [pc |-> "idle", data |-> <<>>, i |-> 0]
    /\ last' = [last EXCEPT !.ret = spi.data]
    /\ UNCHANGED <<gpioVars, pin, prev, clkVars, intrMem, armed, osVars>>

\* hardware: the serializer is not running (no byte is ever shifted, so RXD
\* is never raised for a byte that was written)
SpiStalled == "stall" \in DOMAIN spiMem /\ spiMem.stall

\* hardware: while the transfer is active the oldest byte of the TX FIFO is
\* shifted out and the byte the slave returns for it enters the RX FIFO
SpiShift ==
    /\ ~SpiStalled
    /\ 7 \in spiMem.cs
    /\ txFifo # <<>>
    /\ Len(rxFifo) < 16
    /\ txFifo' = Tail(txFifo)
    /\ rxFifo' = Append(rxFifo, Loopback(Head(txFifo)))
    /\ UNCHANGED <<gpioVars, pin, prev, last, spiMem, spi, clkVars, intrMem, armed, osVars>>

InitSpi ==
    /\ GpioQuiet
    /\ prev = None
    /\ last = None
    /\ intrMem = {}
    /\ armed = -1
    /\ OsQuiet
    /\ spiMem \in {[cs |-> c, div |-> {}] : c \in {{}, {7}, {0, 3, 21}}}
    /\ txFifo \in {<<>>, <<85>>}
    /\ rxFifo \in {<<>>, <<85>>, <<85, 170>>}
    /\ spi = [pc |-> "idle", data |-> <<>>, i |-> 0]
    /\ ClkQuiet

NextSpi ==
    \/ \E data \in Buffers : ExchangeClear(data)
    \/ ExchangeSetTA
    \/ ExchangeWaitTxd
    \/ ExchangePut
    \/ ExchangeWaitRxd
    \/ ExchangeGet
    \/ ExchangeWaitDone
    \/ ExchangeClearTA
    \/ SpiShift

SpecSpi == InitSpi /\ [][NextSpi]_vars

\* SpiExchange as it runs when the goroutine is scheduled again and again: a
\* loop goes on reading its status bit, and a serializer that runs shifts
\* the bytes in the end; the controller may also be stalled
InitSpiFair ==
    /\ GpioQuiet
    /\ prev = None
    /\ last = None
    /\ intrMem = {}
    /\ armed = -1
    /\ OsQuiet
    /\ spiMem \in {[cs |-> c, div |-> {}, stall |-> st] :
                       c \in {{}, {7}, {0, 3, 21}}, st \in BOOLEAN}
    /\ txFifo \in {<<>>, <<85>>}
    /\ rxFifo \in {<<>>, <<85>>, <<85, 170>>}
    /\ spi = [pc |-> "idle", data |-> <<>>, i |-> 0]
    /\ ClkQuiet

SpecSpiFair ==
    /\ InitSpiFair
    /\ [][NextSpi]_vars
    /\ WF_vars(ExchangeSetTA) /\ WF_vars(ExchangeWaitTxd) /\ WF_vars(ExchangePut)
    /\ WF_vars(ExchangeWaitRxd) /\ WF_vars(ExchangeGet)
    /\ WF_vars(ExchangeWaitDone) /\ WF_vars(ExchangeClearTA)
    /\ WF_vars(SpiShift)

(***************************************************************************)
(* Clock frequency: SetFreq step by step, and the clock generators         *)
(***************************************************************************)
\* SetFreq(p, freq) is called; it returns at once for a pin of no clock, and
\* sourceFreq / freq is a run-time panic (integer divide by zero) for freq = 0
SetFreqCall(p, freq) ==
    /\ clk.pc = "idle"
    /\ clk.calls < MaxCalls
    /\ clk' = [pc    |-> IF freq = 0 \/ ClkGroup(p).ctl = -1 THEN "idle"
                         ELSE "stoppwm",
               pin   |-> p,
               freq  |-> freq,
               log   |-> <<>>,
               calls |-> clk.calls + 1,
               bits  |-> clk.bits]
    /\ last' = Call("SetFreq", p, freq, IF freq = 0 THEN "panic" ELSE "", "")
    /\ UNCHANGED <<gpioVars, pin, prev, spiVars, clkMem, pwmMem, intrMem, armed, osVars>>

\* one storing step of the running call: StopPwm(), the four stores to the
\* clock window, and the deferred StartPwm()
SetFreqStep ==
    /\ clk.pc \in {"stoppwm", "stop", "src", "div", "enab", "startpwm"}
    /\ LET w == SetFreqWrite(clk.pc, clk.pin, clk.freq, clk.bits, clkMem, pwmMem) IN
       /\ clkMem' = IF w # <<>> /\ w[1] = "clk"
                    THEN ClkStore(clkMem, w[2], w[3]) ELSE clkMem
       /\ pwmMem' = IF w # <<>> /\ w[1] = "pwm"
                    THEN [pwmMem EXCEPT ![w[2]] = w[3]] ELSE pwmMem
       /\ clk' = [clk EXCEPT !.pc = SetFreqNext(clk.pc),
                             !.log = IF w # <<>> THEN Append(@, w) ELSE @]
    /\ UNCHANGED <<gpioVars, pin, prev, last, spiVars, intrMem, armed, osVars>>

\* for clkMem[clkCtlReg]&busy != 0 { sleep }: the loop ends when busy reads 0
SetFreqBusy ==
    /\ clk.pc = "busy"
    /\ 7 \notin clkMem[ClkGroup(clk.pin).ctl]
    /\ clk' = [clk EXCEPT !.pc = SetFreqNext(clk.pc)]
    /\ UNCHANGED <<gpioVars, pin, prev, last, spiVars, clkMem, pwmMem,
                   intrMem, armed, osVars>>

\* hardware: a clock generator that was disabled stops, and its busy bit goes
\* down (the PWM clock's only once no PWM channel is enabled)
ClkSettle(reg) ==
    /\ 4 \notin clkMem[reg] /\ 7 \in clkMem[reg]
    /\ reg = 40 => pwmMem[0] \cap {0, 8} = {}
    /\ clkMem' = [clkMem EXCEPT ![reg] = @ \ {7}]
    /\ UNCHANGED <<gpioVars, pin, prev, last, spiVars, pwmMem, clk, intrMem, armed, osVars>>

\* hardware: a clock generator that was enabled runs, and its busy bit goes up
ClkRun(reg) ==
    /\ 4 \in clkMem[reg] /\ 7 \notin clkMem[reg]
    /\ clkMem' = [clkMem EXCEPT ![reg] = @ \cup {7}]
    /\ UNCHANGED <<gpioVars, pin, prev, last, spiVars, pwmMem, clk, intrMem, armed, osVars>>

InitClk ==
    /\ GpioQuiet
    /\ prev = None
    /\ last = None
    /\ intrMem = {}
    /\ armed = -1
    /\ OsQuiet
    /\ SpiQuiet
    /\ \E c \in {{}, {0, 4, 7, 9}} :
           clkMem = [r \in ClkRegs |-> IF r \in ClkCtlRegs THEN c ELSE {}]
    /\ \E c \in {{}, {0, 7, 8, 15}} :
           pwmMem = [r \in PwmRegs |-> IF r = 0 THEN c ELSE {}]
    /\ \E b \in {32, 64} : clk = [ClkIdle EXCEPT !.bits = b]

NextClk ==
    \/ \E p \in Pins, freq \in Freqs : SetFreqCall(p, freq)
    \/ SetFreqStep
    \/ SetFreqBusy
    \/ \E reg \in ClkCtlRegs : ClkSettle(reg)
    \/ \E reg \in ClkCtlRegs : ClkRun(reg)

SpecClk == InitClk /\ [][NextClk]_vars

(***************************************************************************)
(* One request on any pin a uint8 can name: PinMode, SetFreq, SetDutyCycle *)
(***************************************************************************)
CallSetDutyCycle(dutyLen, cycleLen) ==
    /\ pwmMem' = SetDutyCycle(pwmMem, pin, dutyLen, cycleLen)
    /\ Record(Call("SetDutyCycle", pin, <<dutyLen, cycleLen>>, "", ""))
    /\ UNCHANGED <<gpioVars, pin, spiVars, clkMem, clk, intrMem, armed, osVars>>

InitRequest ==
    /\ pin \in 0..255
    /\ hw2711 = FALSE
    /\ gpioMem = GpioInit({i \in Word : i % 2 = 0}, {}, hw2711)
    /\ prev = None
    /\ last = None
    /\ intrMem = {}
    /\ armed = -1
    /\ OsQuiet
    /\ SpiQuiet
    /\ \E c \in {{}, {0, 4, 7, 9}} :
           clkMem = [r \in ClkRegs |-> IF r \in ClkCtlRegs THEN c ELSE {}]
    /\ pwmMem = [r \in PwmRegs |-> IF r = 0 THEN {0, 7, 8, 15} ELSE {5}]
    /\ clk = ClkIdle

SpecRequest ==
    /\ InitRequest
    /\ [][\/ last.op = "none" /\ \E mode \in Modes : CallPinMode(mode)
          \/ last.op = "none" /\ \E freq \in Freqs : SetFreqCall(pin, freq)
          \/ last.op = "none" /\ \E d \in {1, 4} : CallSetDutyCycle(d, 4)
          \/ SetFreqStep
          \/ SetFreqBusy
          \/ \E reg \in ClkCtlRegs : ClkSettle(reg)
          \/ \E reg \in ClkCtlRegs : ClkRun(reg)]_vars

(***************************************************************************)
(* Threads: calls of two threads, one register access or lock operation at *)
(* a time, and the clock generators                                        *)
(***************************************************************************)
Threads == {"a", "b"}

\* thread t is in a call and has steps of it left (prog holds the steps of
\* the call, as Prog gave them when it was made)
Running(t) == thr[t].pc <= Len(thr[t].prog)

\* thread t, in no call, calls c (at most MaxCalls calls per thread)
ThreadCall(t, c) ==
    /\ ~Running(t)
    /\ thr[t].n < MaxCalls
    /\ thr' = [thr EXCEPT ![t] = [call |-> c, pc |-> 1, tmp |-> {}, n |-> @.n + 1,
                                  prog |-> Prog(c, hw2711)]]
    /\ UNCHANGED <<gpioVars, pin, prev, last, spiVars, clkVars, intrMem, armed,
                   ranges, proc, memlock>>

\* the windows in the order Open maps and Close unmaps them
Windows == <<"gpio", "clk", "pwm", "spi", "intr">>

\* mutant: the low word for either register
IrqWord_LowOnly(irqs, r) == {l \in irqs : l < 32}

\* the IRQ lines of word r of the enable (132, 133) or disable (135, 136)
\* registers among irqs: uint32(irqs) and uint32(irqs >> 32)
IrqWord(irqs, r) ==
    IF r \in {132, 135} THEN {l \in irqs : l < 32} ELSE {l \in irqs : l >= 32}

\* where a call goes on after a failed memMap or Munmap: it returns, and the
\* deferred memlock.Unlock(), its last step, runs; where the unlock is not
\* deferred (w = "ret") the call is over
OnError(prog, i) == IF i.w = "ret" THEN Len(prog) + 1 ELSE Len(prog)

\* thread t is at a step of kind k
AtStep(t, k) ==
    /\ thr[t].pc <= Len(thr[t].prog)
    /\ thr[t].prog[thr[t].pc].k = k

\* thread t makes the next step of its call
ThreadStep(t) ==
    /\ Running(t)
    /\ LET prog == thr[t].prog
           i   == prog[thr[t].pc]
           mem == CASE i.w = "g" -> gpioMem [] i.w = "c" -> clkMem
                    [] i.w = "s" -> [r \in {0} |-> SpiLoadCs(spiMem, txFifo, rxFifo)]
                    [] i.w = "i" -> [r \in {132, 133} |-> IrqWord(intrMem, r)]
                    [] OTHER -> pwmMem
           val == AndNot(thr[t].tmp, i.clr) \cup i.set
           err == \/ i.k = "mmap" /\ i.r = thr[t].call.arg[2]
                  \/ i.k = "munmap" /\ (Windows[i.r] \notin proc.mapped
                                            \/ i.r = thr[t].call.arg)
           panic == i.k = "restore" /\ "intr" \notin proc.mapped
       IN  /\ i.k = "lock" => memlock = "free"
           /\ i.k = "await" => mem[i.r] \cap i.set = {}
           /\ memlock' = CASE i.k = "lock" -> t [] i.k = "unlock" -> "free"
                            [] OTHER -> memlock
           /\ thr' = [thr EXCEPT ![t].pc = IF err THEN OnError(prog, i)
                                           ELSE IF panic THEN Len(prog) + 2
                                           ELSE @ + 1,
                                 ![t].tmp = IF i.k = "load" THEN mem[i.r] ELSE @]
           /\ gpioMem' = IF i.k = "store" /\ i.w = "g"
                         THEN GpioStore(gpioMem, i.r, val)
                         ELSE IF i.k = "toggle"
                         THEN GpioStore(gpioMem,
                                        IF thr[t].tmp \cap i.set # {}
                                        THEN i.r + 3 ELSE i.r, i.set)
                         ELSE gpioMem
           /\ clkMem' = IF i.k = "store" /\ i.w = "c"
                        THEN ClkStore(clkMem, i.r, val) ELSE clkMem
           /\ pwmMem' = IF i.k = "store" /\ i.w = "p"
                        THEN [pwmMem EXCEPT ![i.r] = val] ELSE pwmMem
           /\ IF i.k = "store" /\ i.w = "s" THEN StoreCs(val)
              ELSE UNCHANGED <<spiMem, txFifo, rxFifo>>
           /\ intrMem' = IF i.k = "store" /\ i.w = "i" /\ i.r \in {135, 136}
                         THEN DisableIRQs(intrMem, val)
                         ELSE IF i.k = "store" /\ i.w = "i"
                         THEN EnableIRQs(intrMem, val)
                         ELSE IF i.k = "restore" /\ ~panic
                         THEN EnableIRQs(intrMem, IrqWord(proc.irqsBackup, i.r))
                         ELSE intrMem
           /\ proc' = IF i.k = "mmap" /\ ~err
                      THEN [proc EXCEPT !.mapped = @ \cup {Windows[i.r]}]
                      ELSE IF i.k = "munmap" /\ ~err
                      THEN [proc EXCEPT !.mapped = @ \ {Windows[i.r]}]
                      ELSE IF i.k = "backup"
                      THEN [proc EXCEPT !.irqsBackup =
                                thr[t].tmp \cup IrqWord(intrMem, i.r)]
                      ELSE proc
    /\ UNCHANGED <<hw2711, pin, prev, last, spi, clk, armed, ranges>>

\* the calls the threads make
ThreadCalls ==
    {[op |-> "PinMode", pin |-> 4, arg |-> "Output"],
     [op |-> "PinMode", pin |-> 5, arg |-> "Alt0"],
     [op |-> "PullMode", pin |-> 4, arg |-> Pulls.PullUp],
     [op |-> "SetFreq", pin |-> 4, arg |-> 152000],
     [op |-> "SetFreq", pin |-> 12, arg |-> 152000],
     [op |-> "SetDutyCycle", pin |-> 12, arg |-> <<1, 4>>],
     [op |-> "SetDutyCycle", pin |-> 13, arg |-> <<1, 4>>]}

InitThreads ==
    /\ GpioQuiet
    /\ prev = None
    /\ last = None
    /\ intrMem = {}
    /\ armed = -1
    /\ SpiQuiet
    /\ \E c \in {{}, {0, 4, 7, 9}} :
           clkMem = [r \in ClkRegs |-> IF r \in ClkCtlRegs THEN c ELSE {}]
    /\ pwmMem = [r \in PwmRegs |-> {}]
    /\ clk = ClkIdle
    /\ ranges = [exists |-> FALSE, bytes |-> <<>>]
    /\ proc = [mapped |-> {}, irqsBackup |-> {}]
    /\ memlock = "free"
    /\ thr = [t \in Threads |-> [call |-> None, pc |-> 1, tmp |-> {}, n |-> 0, prog |-> <<>>]]

SpecThreads ==
    /\ InitThreads
    /\ [][\/ \E t \in Threads, c \in ThreadCalls : ThreadCall(t, c)
          \/ \E t \in Threads : ThreadStep(t)
          \/ \E reg \in ClkCtlRegs : ClkSettle(reg)
          \/ \E reg \in ClkCtlRegs : ClkRun(reg)]_vars

(***************************************************************************)
(* SPI setup and teardown: SpiBegin and SpiEnd                             *)
(***************************************************************************)
CallSpiBegin(dev) ==
    LET b == SpiBegin(spiMem, txFifo, rxFifo, gpioMem, dev) IN
    /\ spiMem' = b.mem
    /\ txFifo' = b.tx
    /\ rxFifo' = b.rx
    /\ gpioMem' = b.gpio
    /\ last' = Call("SpiBegin", 0, dev, b.err, [rb |-> b.rb, stores |-> b.stores])
    /\ UNCHANGED <<hw2711, pin, prev, spi, clkVars, intrMem, armed, osVars>>

CallSpiEnd(dev) ==
    /\ gpioMem' = PinModeAll(gpioMem, getSpiPins(dev), "Input")
    /\ last' = Call("SpiEnd", 0, dev, "", "")
    /\ UNCHANGED <<hw2711, pin, prev, spiVars, clkVars, intrMem, armed, osVars>>

InitSpiSetup ==
    /\ pin = 0
    /\ hw2711 = FALSE
    /\ \E cfg \in Fills : gpioMem = GpioInit(cfg, {}, hw2711)
    /\ prev = None
    /\ last = None
    /\ intrMem = {}
    /\ armed = -1
    /\ OsQuiet
    /\ \E fill \in Fills, live \in BOOLEAN :
           spiMem = [cs |-> fill \cap SpiCtlBits, div |-> fill \cap (1..15),
                     live |-> live]
    /\ txFifo \in {<<>>, <<173>>, [k \in 1..16 |-> 0]}
    /\ rxFifo \in {<<>>, <<190>>}
    /\ spi = [pc |-> "idle", data |-> <<>>, i |-> 0]
    /\ ClkQuiet

SpecSpiSetup ==
    /\ InitSpiSetup
    /\ [][\/ \E dev \in {0, 1, 2, 3} : CallSpiBegin(dev)
          \/ \E dev \in {0, 1, 2, 3} : CallSpiEnd(dev)]_vars

\* thread a programs the PWM clock while thread b sets a duty cycle; each
\* thread in a call is scheduled again and again, and the clock generators
\* react to their enable bits in the end
SpecThreadsFair ==
    /\ InitThreads
    /\ [][\/ ThreadCall("a", [op |-> "SetFreq", pin |-> 12, arg |-> 152000])
          \/ ThreadCall("b", [op |-> "SetDutyCycle", pin |-> 12, arg |-> <<1, 4>>])
          \/ \E t \in Threads : ThreadStep(t)
          \/ \E reg \in ClkCtlRegs : ClkSettle(reg)
          \/ \E reg \in ClkCtlRegs : ClkRun(reg)]_vars
    /\ \A t \in Threads : WF_vars(ThreadStep(t))
    /\ \A reg \in ClkCtlRegs : WF_vars(ClkSettle(reg)) /\ WF_vars(ClkRun(reg))

(***************************************************************************)
(* The operations that take memlock, called by two threads                 *)
(***************************************************************************)
LockedCalls ==
    [a |-> {[op |-> "PinMode", pin |-> 7, arg |-> "Clock"],
            [op |-> "WritePin", pin |-> 4, arg |-> "High"],
            [op |-> "SetFreq", pin |-> 4, arg |-> 152000],
            [op |-> "SetFreq", pin |-> 12, arg |-> 152000],
            [op |-> "Open", pin |-> 0, arg |-> <<TRUE, 0>>],
            [op |-> "Open", pin |-> 0, arg |-> <<FALSE, 3>>],
            [op |-> "rpio/Open", pin |-> 0, arg |-> <<FALSE, 0>>],
            [op |-> "rpio/Open", pin |-> 0, arg |-> <<FALSE, 1>>]},
     b |-> {[op |-> "PinMode", pin |-> 4, arg |-> "Output"],
            [op |-> "TogglePin", pin |-> 4, arg |-> ""],
            [op |-> "SetFreq", pin |-> 4, arg |-> 152000],
            [op |-> "SetFreq", pin |-> 12, arg |-> 152000],
            [op |-> "Open", pin |-> 0, arg |-> <<FALSE, 0>>],
            [op |-> "Close", pin |-> 0, arg |-> 0],
            [op |-> "Close", pin |-> 0, arg |-> 2]}]

InitLocked ==
    /\ GpioQuiet
    /\ prev = None
    /\ last = None
    /\ intrMem = {49}
    /\ armed = -1
    /\ SpiQuiet
    /\ \E c \in {{}, {0, 4, 7, 9}} :
           clkMem = [r \in ClkRegs |-> IF r \in ClkCtlRegs THEN c ELSE {}]
    /\ pwmMem = [r \in PwmRegs |-> {}]
    /\ clk = ClkIdle
    /\ ranges = [exists |-> FALSE, bytes |-> <<>>]
    /\ \E m \in {{}, {Windows[k] : k \in 1..5}} :
           proc = [mapped |-> m, irqsBackup |-> {}]
    /\ memlock = "free"
    /\ thr = [t \in Threads |-> [call |-> None, pc |-> 1, tmp |-> {}, n |-> 0, prog |-> <<>>]]

\* each thread in a call is scheduled again and again (a thread that waits
\* for the lock gets it once it stays free), and the clock generators react
\* to their enable bits in the end
SpecLocked ==
    /\ InitLocked
    /\ [][\/ \E t \in Threads : \E c \in LockedCalls[t] : ThreadCall(t, c)
          \/ \E t \in Threads : ThreadStep(t)
          \/ \E reg \in ClkCtlRegs : ClkSettle(reg)
          \/ \E reg \in ClkCtlRegs : ClkRun(reg)]_vars
    /\ \A t \in Threads : WF_vars(ThreadStep(t))
    /\ \A reg \in ClkCtlRegs : WF_vars(ClkSettle(reg)) /\ WF_vars(ClkRun(reg))

(***************************************************************************)
(* Interrupt enables from Open to Close: one thread, call after call       *)
(***************************************************************************)
\* the thread, in no call, calls c (at most MaxSeq calls)
ThreadCallSeq(t, c) ==
    /\ ~Running(t)
    /\ thr[t].n < MaxSeq
    /\ thr' = [thr EXCEPT ![t] = [call |-> c, pc |-> 1, tmp |-> {}, n |-> @.n + 1,
                                  prog |-> Prog(c, hw2711)]]
    /\ UNCHANGED <<gpioVars, pin, prev, last, spiVars, clkVars, intrMem, armed,
                   ranges, proc, memlock>>

IrqCalls ==
    {[op |-> "Open", pin |-> 0, arg |-> <<FALSE, 0>>],
     [op |-> "Open", pin |-> 0, arg |-> <<FALSE, 5>>],
     [op |-> "Close", pin |-> 0, arg |-> 0],
     [op |-> "DetectEdge", pin |-> 4, arg |-> Edges.RiseEdge],
     [op |-> "DetectEdge", pin |-> 36, arg |-> Edges.AnyEdge],
     [op |-> "DetectEdge", pin |-> 4, arg |-> Edges.NoEdge],
     [op |-> "EnableIRQs", pin |-> 0, arg |-> {50}],
     [op |-> "DisableIRQs", pin |-> 0, arg |-> {29, 50}]}

InitIrq ==
    /\ GpioQuiet
    /\ prev = None
    /\ last = None
    /\ intrMem \in {{}, {29, 49, 52}, {49, 50}}
    /\ armed = -1
    /\ SpiQuiet
    /\ ClkQuiet
    /\ OsQuiet

SpecIrq ==
    /\ InitIrq
    /\ [][\/ \E c \in IrqCalls : ThreadCallSeq("a", c)
          \/ ThreadStep("a")]_vars

(***************************************************************************)
(* PullMode on the legacy chips, call after call, one access at a time     *)
(***************************************************************************)
\* the pins the calls are for, one per bank
PullSeqPins == {4, 36}

\* a legacy chip whose pull control register holds what the last user of the
\* GPIO block left there: 0 after a complete sequence, the code 1 or 2 of a
\* sequence that was cut short after its first store
InitPullSeq ==
    /\ hw2711 = FALSE
    /\ \E c \in {{}, {0}, {1}} :
           gpioMem = [GpioInit({}, {}, FALSE) EXCEPT ![37] = c]
    /\ pin = 0
    /\ prev = None
    /\ last = None
    /\ intrMem = {}
    /\ armed = -1
    /\ SpiQuiet
    /\ ClkQuiet
    /\ OsQuiet

SpecPullSeq ==
    /\ InitPullSeq
    /\ [][\/ \E t \in Threads, p \in PullSeqPins,
                 pull \in {Pulls.PullOff, Pulls.PullDown, Pulls.PullUp} :
                 ThreadCall(t, [op |-> "PullMode", pin |-> p, arg |-> pull])
          \/ \E t \in Threads : ThreadStep(t)]_vars

(***************************************************************************)
(* PinMode in two goroutines, on two pins of one function select register  *)
(***************************************************************************)
\* the pin each thread works on: pins 4 and 5, fields of register 0
ModePin == [a |-> 4, b |-> 5]

InitModeConc ==
    /\ hw2711 = FALSE
    /\ \E cfg \in Fills : gpioMem = GpioInit(cfg, {}, FALSE)
    /\ pin = 0
    /\ prev = None
    /\ last = None
    /\ intrMem = {}
    /\ armed = -1
    /\ SpiQuiet
    /\ ClkQuiet
    /\ OsQuiet

SpecModeConc ==
    /\ InitModeConc
    /\ [][\/ \E t \in Threads, mode \in {"Input", "Output", "Alt0", "Alt3", "Alt5"} :
                 ThreadCall(t, [op |-> "PinMode", pin |-> ModePin[t], arg |-> mode])
          \/ \E t \in Threads : ThreadStep(t)]_vars

(***************************************************************************)
(* Calls that take no lock, in two goroutines: DetectEdge, SetDutyCycle,   *)
(* StopPwm and the setters of the SPI control register                     *)
(***************************************************************************)
\* the calls of each thread: thread a works on pin 4, on PWM channel 1 and on
\* the chip select bits, thread b on pin 5 (same bank), on PWM channel 2 and
\* on the clock mode bits; thread a also stops PWM
UnlockedCalls ==
    [a |-> {[op |-> "DetectEdge", pin |-> 4, arg |-> e] : e \in {1, 2, 3}}
              \cup {[op |-> "SetDutyCycle", pin |-> 12, arg |-> <<1, 4>>],
                    [op |-> "StopPwm", pin |-> 0, arg |-> 0],
                    [op |-> "SpiChipSelect", pin |-> 0, arg |-> 1]},
     b |-> {[op |-> "DetectEdge", pin |-> 5, arg |-> e] : e \in {1, 2, 3}}
              \cup {[op |-> "SetDutyCycle", pin |-> 13, arg |-> <<1, 4>>],
                    [op |-> "SpiMode", pin |-> 0, arg |-> <<1, 1>>]}]

InitUnlocked ==
    /\ GpioQuiet
    /\ prev = None
    /\ last = None
    /\ intrMem = {49, 52}
    /\ armed = -1
    /\ SpiQuiet
    /\ clkMem = [r \in ClkRegs |-> {}]
    /\ \E c \in {{}, {0, 8}} : pwmMem = [r \in PwmRegs |-> IF r = 0 THEN c ELSE {}]
    /\ clk = ClkIdle
    /\ OsQuiet

SpecUnlocked ==
    /\ InitUnlocked
    /\ [][\/ \E t \in Threads : \E c \in UnlockedCalls[t] : ThreadCall(t, c)
          \/ \E t \in Threads : ThreadStep(t)]_vars

(***************************************************************************)
(* One pin operation on any value of the type Pin (uint8)                  *)
(***************************************************************************)
InitAnyPin ==
    /\ pin \in 0..255
    /\ hw2711 = FALSE
    /\ \E cfg \in Fills, sts \in Fills : gpioMem = GpioInit(cfg, sts, hw2711)
    /\ prev = None
    /\ last = None
    /\ intrMem = {49, 52}
    /\ armed = -1
    /\ OsQuiet
    /\ SpiQuiet
    /\ ClkQuiet

SpecAnyPin ==
    /\ InitAnyPin
    /\ [][\/ last.op = "none" /\ \E mode \in Modes : CallPinMode(mode)
          \/ last.op = "none" /\ \E state \in States : CallWritePin(state)
          \/ last.op = "none" /\ CallTogglePin
          \/ last.op = "none" /\ \E edge \in {Edges.NoEdge, Edges.RiseEdge,
                                                Edges.FallEdge, Edges.AnyEdge} :
                                     CallDetectEdge(edge)
          \/ last.op = "none" /\ CallEdgeDetected]_vars

(***************************************************************************)
(* Integer arguments: SetFreq and SpiSpeed with any int                    *)
(***************************************************************************)
CallSpiSpeed(speed) ==
    /\ spiMem' = IF SpiSpeed(speed).panic THEN spiMem
                 ELSE [spiMem EXCEPT !.div = SpiSpeed(speed).div]
    /\ last' = Call("SpiSpeed", 0, speed,
                    IF SpiSpeed(speed).panic THEN "panic" ELSE "", "")
    /\ UNCHANGED <<gpioVars, pin, prev, txFifo, rxFifo, spi, clkVars, intrMem,
                   armed, osVars>>

SpecArgs ==
    /\ InitRequest
    /\ [][\/ \E freq \in Freqs \cup {-152000, -1, 0, 1, 1000000000} :
                 SetFreqCall(pin, freq)
          \/ \E speed \in {-1, 0, 1, 3814, 31250000, 250000000, 1000000000} :
                 CallSpiSpeed(speed)
          \/ SetFreqStep
          \/ SetFreqBusy
          \/ \E reg \in ClkCtlRegs : ClkSettle(reg)
          \/ \E reg \in ClkCtlRegs : ClkRun(reg)]_vars

(***************************************************************************)
(* Open and Close                                                          *)
(***************************************************************************)
\* Open(): the device file opens or not (fileErr); then the windows are mapped
\* in order until memMap fails (the failAt-th, 0 for none), and after the
\* last one the enabled IRQs are backed up
CallOpen(fileErr, failAt) ==
    LET n == IF fileErr THEN 0 ELSE IF failAt = 0 THEN 5 ELSE failAt - 1 IN
    /\ proc' = [mapped |-> proc.mapped \cup {Windows[k] : k \in 1..n},
                irqsBackup |-> IF n = 5 THEN intrMem ELSE proc.irqsBackup]
    /\ Record(Call("Open", 0, <<fileErr, failAt>>,
                   IF n = 5 THEN "nil" ELSE "error", ""))
    /\ UNCHANGED <<gpioVars, pin, spiVars, clkVars, intrMem, armed, ranges,
                   memlock, thr>>

\* Close(): EnableIRQs(irqsBackup), a panic on an interrupt window that was
\* never mapped; then Munmap of each window in order, returning at the first
\* error: a window that is not mapped (EINVAL) or the failAt-th (0 for none)
CallClose(failAt) ==
    LET bad  == {k \in 1..5 : Windows[k] \notin proc.mapped \/ k = failAt}
        n    == IF bad = {} THEN 5 ELSE (CHOOSE k \in bad : \A j \in bad : k <= j) - 1
        intr == "intr" \in proc.mapped
    IN
    /\ intrMem' = IF intr THEN EnableIRQs(intrMem, proc.irqsBackup) ELSE intrMem
    /\ proc' = IF intr
               THEN [proc EXCEPT !.mapped = @ \ {Windows[k] : k \in 1..n}]
               ELSE proc
    /\ Record(Call("Close", 0, failAt,
                   IF ~intr THEN "panic" ELSE IF n = 5 THEN "nil" ELSE "error", ""))
    /\ UNCHANGED <<gpioVars, pin, spiVars, clkVars, armed, ranges, memlock, thr>>

InitOpen ==
    /\ GpioQuiet
    /\ prev = None
    /\ last = None
    /\ intrMem \in {{}, {29, 49, 52}}
    /\ armed = -1
    /\ OsQuiet
    /\ SpiQuiet
    /\ ClkQuiet

SpecOpen ==
    /\ InitOpen
    /\ [][\/ \E fileErr \in BOOLEAN, failAt \in 0..5 : CallOpen(fileErr, failAt)
          \/ \E failAt \in 0..5 : CallClose(failAt)]_vars

(***************************************************************************)
(* Base address discovery: init() calls getBase()                          *)
(***************************************************************************)
\* the 4-byte cells a translation file is made of
Cells == {<<0, 0, 0, 0>>, <<63, 0, 0, 0>>, <<254, 0, 0, 0>>, <<0, 0, 32, 1>>,
          <<255, 255, 255, 255>>}

CallGetBase ==
    /\ last.op = "none"
    /\ last' = Call("getBase", 0, "", getBase(ranges), "")
    /\ UNCHANGED <<gpioVars, pin, prev, spiVars, clkVars, intrMem, armed, osVars>>

InitBase ==
    /\ GpioQuiet
    /\ prev = None
    /\ last = None
    /\ intrMem = {}
    /\ armed = -1
    /\ SpiQuiet
    /\ ClkQuiet
    /\ proc = [mapped |-> {}, irqsBackup |-> {}]
    /\ memlock = "free"
    /\ thr = [t \in {"a", "b"} |-> [call |-> None, pc |-> 1, tmp |-> {}, n |-> 0, prog |-> <<>>]]
    /\ \E e \in BOOLEAN, c1, c2, c3 \in Cells, n \in 0..MaxFile :
           ranges = [exists |-> e,
                     bytes  |-> IF e THEN SubSeq(<<126, 0, 0, 0>> \o c1 \o c2 \o c3, 1, n)
                                ELSE <<>>]

NextBase == CallGetBase

SpecBase == InitBase /\ [][NextBase]_vars

(***************************************************************************)
(* Claims                                                                  *)
(***************************************************************************)
\* C1: write(p, High) followed by read(p) returns High and write(p, Low)
\* followed by read(p) returns Low, for every pin of bank 0 and bank 1 and
\* from any register state: right after a WritePin the level register shows
\* the written state, and a ReadPin that follows a WritePin returns it.
C1_WriteReadRoundTrip ==
    /\ last.op = "WritePin" => ReadPin(gpioMem, last.pin) = last.arg
    /\ (prev.op = "WritePin" /\ last.op = "ReadPin") => last.ret = prev.arg

\* a pin of bank 1 was written High from a state where it was Low, and read
C1_Witness ==
    /\ pin >= 32
    /\ prev.op = "WritePin" /\ prev.arg = "High"
    /\ last.op = "ReadPin" /\ last.ret = "High"
    /\ gpioMem[13] = {}

\* C3: toggle(p) flips the level of p, and toggle(p) applied twice with no
\* other write to p in between returns p to its original level.
C3_ToggleInvolution ==
    /\ last.op = "TogglePin" => ReadPin(gpioMem, last.pin) # last.was
    /\ (prev.op = "TogglePin" /\ last.op = "TogglePin")
           => ReadPin(gpioMem, last.pin) = prev.was

\* a pin of bank 1 that was High was toggled twice
C3_Witness ==
    /\ pin >= 32
    /\ prev.op = "TogglePin" /\ prev.was = "High"
    /\ last.op = "TogglePin" /\ last.was = "Low"
    /\ ReadPin(gpioMem, pin) = "High"

\* C2: set_mode(p, m) followed by read_mode(p) returns the 3-bit code of the
\* fixed table for every m in {Input, Output, Alt0..Alt5}, whatever the field
\* held before (so Output then Input reads 0), and repeating the same set_mode
\* leaves the register unchanged.
C2_ModeRoundTrip ==
    LET table == [Input |-> 0, Output |-> 1, Alt0 |-> 4, Alt1 |-> 5,
                  Alt2 |-> 6, Alt3 |-> 7, Alt4 |-> 3, Alt5 |-> 2]
    IN  /\ (last.op = "PinMode" /\ last.arg \in DOMAIN table)
               => /\ ReadPinMode(gpioMem, last.pin) = table[last.arg]
                  /\ PinMode(gpioMem, last.pin, last.arg) = gpioMem
        /\ (prev.op = "PinMode" /\ prev.arg \in DOMAIN table
                /\ last.op = "ReadPinMode")
               => last.ret = table[prev.arg]

\* pin 53, whose field held 7 like every field of its register, was set to
\* Output and then to Input
C2_Witness ==
    /\ pin = 53
    /\ prev.op = "PinMode" /\ prev.arg = "Output"
    /\ last.op = "PinMode" /\ last.arg = "Input"
    /\ ReadPinMode(gpioMem, pin) = 0
    /\ gpioMem[5] = AllOnes \ {9, 10, 11}

\* C4: after a qualifying transition has latched an event on pin p, two
\* consecutive edge_detected(p) calls with no transition between them return
\* true and then false, and any number of qualifying transitions between two
\* polls is reported as a single true: a poll that follows a transition of an
\* armed direction returns true, a poll that follows a poll returns false, and
\* after every poll the latch is clear.
C4_LatchAndClear ==
    /\ (prev.op = "Transition" /\ last.op = "EdgeDetected" /\ armed # -1
            /\ (IF prev.arg = "Rise" THEN armed \in {1, 3} ELSE armed \in {2, 3}))
           => last.ret = TRUE
    /\ (prev.op = "EdgeDetected" /\ last.op = "EdgeDetected") => last.ret = FALSE
    /\ last.op = "EdgeDetected" => ~EdgeDetectedRet(gpioMem, last.pin)

\* a transition on a pin whose event was already latched (a second qualifying
\* transition), then a poll that returned true
C4_Witness ==
    /\ prev.op = "Transition" /\ prev.arg = "Fall" /\ prev.was = TRUE
    /\ armed = Edges.AnyEdge
    /\ last.op = "EdgeDetected" /\ last.ret = TRUE
    /\ ~EdgeDetectedRet(gpioMem, pin)

\* C5: after set_edge_detect(p, None) any sequence of level transitions on p
\* leaves edge_detected(p) false, also when an event was latched and not yet
\* polled when detection was disabled.
C5_DisabledStaysClear ==
    armed = Edges.NoEdge
        => /\ ~EdgeDetectedRet(gpioMem, pin)
           /\ last.op = "EdgeDetected" => last.ret = FALSE

\* detection is disabled, the level rose, and the poll returned false
C5_Witness ==
    /\ armed = Edges.NoEdge
    /\ prev.op = "Transition" /\ prev.arg = "Rise"
    /\ last.op = "EdgeDetected" /\ last.ret = FALSE

\* C6: a transition on pin p is latched exactly when its direction is in the
\* Edge of the most recent set_edge_detect(p, edge) (RiseEdge: Low to High,
\* FallEdge: High to Low, AnyEdge: both, each call replacing the earlier
\* setting), and the call itself clears any event latched before it.
C6_EdgeSelectsDirection ==
    /\ (last.op = "Transition" /\ armed # -1)
           => (EdgeDetectedRet(gpioMem, last.pin)
                  <=> \/ last.was
                      \/ last.arg = "Rise" /\ armed \in {Edges.RiseEdge, Edges.AnyEdge}
                      \/ last.arg = "Fall" /\ armed \in {Edges.FallEdge, Edges.AnyEdge})
    /\ last.op = "DetectEdge" => ~EdgeDetectedRet(gpioMem, last.pin)

\* FallEdge was set, then RiseEdge, and a falling transition latched nothing
C6_Witness ==
    /\ prev.op = "DetectEdge" /\ prev.arg = Edges.RiseEdge /\ prev.was = TRUE
    /\ last.op = "Transition" /\ last.arg = "Fall"
    /\ gpioMem[fenReg(pin)] = AllOnes \ PinBit(pin)
    /\ ~EdgeDetectedRet(gpioMem, pin)

\* C7: on the hardware with pull read-back, for every pin 0..57 and every
\* sequence of set_pull calls with Up, Down or Off, read_pull(p) returns the
\* value of the last set_pull(p, .) and the 2-bit fields of all other pins are
\* unchanged; on the legacy hardware read_pull(p) returns None after any
\* set_pull.
C7_PullReadBack ==
    /\ [](/\ (hw2711 /\ last.op = "PullMode" /\ last.arg \in {0, 1, 2})
                 => ReadPull(gpioMem, last.pin) = last.arg
          /\ (hw2711 /\ prev.op = "PullMode" /\ prev.arg \in {0, 1, 2}
                  /\ last.op = "ReadPull")
                 => last.ret = prev.arg
          /\ (~hw2711 /\ last.op = "PullMode")
                 => ReadPull(gpioMem, last.pin) = Pulls.PullNone
          /\ (~hw2711 /\ last.op = "ReadPull") => last.ret = Pulls.PullNone)
    /\ [][\A r \in 57..60 : \A b \in Word :
              (r # 57 + pin \div 16 \/ b \div 2 # pin % 16)
                  => (b \in gpioMem[r] <=> b \in gpioMem'[r])]_vars

\* on a BCM2711, pin 50 (a field of the register the revision probe reads) was
\* pulled Down and then Up, and Up is what the pull registers show
C7_Witness ==
    /\ hw2711 /\ pin = 50
    /\ prev.op = "PullMode" /\ prev.arg = Pulls.PullDown
    /\ last.op = "PullMode" /\ last.arg = Pulls.PullUp
    /\ ReadPull(gpioMem, pin) = Pulls.PullUp

\* C8: with a slave in loopback, exchange(buf) returns with buf equal to its
\* original contents for every buffer of length 0..MaxLen; the length of buf
\* is preserved, the i-th received byte is stored at position i, and byte i+1
\* is not written to the FIFO before byte i has been read back (while a call
\* runs at most one byte is in the FIFOs, and none when a byte is written).
C8_LoopbackExchange ==
    /\ (last.op = "SpiExchange" /\ spi.pc = "idle") => last.ret = last.arg
    /\ spi.pc \notin {"idle", "ta"}
           => /\ Len(spi.data) = Len(last.arg)
              /\ Len(txFifo) + Len(rxFifo) <= 1
              /\ \A k \in 1..Len(spi.data) : spi.data[k] = last.arg[k]
    /\ spi.pc = "put" => (txFifo = <<>> /\ rxFifo = <<>>)

\* exchange([0xDE, 0xAD, 0xBE]) has returned [0xDE, 0xAD, 0xBE]
C8_Witness ==
    /\ spi.pc = "idle"
    /\ last.op = "SpiExchange"
    /\ last.arg = <<222, 173, 190>>
    /\ last.ret = <<222, 173, 190>>

\* C9: for any two pins of the same clock group (gp_clk0: 4, 20, 32, 34;
\* gp_clk1: 5, 21, 42, 44; gp_clk2: 6, 43; pwm_clk: 12, 13, 18, 19, 40, 41,
\* 45) and any frequency, set_frequency from the same register state makes the
\* identical sequence of stores to the identical control and divider
\* registers, and pins of different groups never store to the same clock
\* register: at every step of a running call, every other pin of the group
\* would make the same store in the same state, and a pin of another group
\* would store to another clock register.
C9_SharedClockSource ==
    LET groups == {{4, 20, 32, 34}, {5, 21, 42, 44}, {6, 43},
                   {12, 13, 18, 19, 40, 41, 45}}
        steps  == {"stoppwm", "stop", "src", "div", "enab", "startpwm"}
        clocked == {"stop", "src", "div", "enab"}
        W(pc, p) == SetFreqWrite(pc, p, clk.freq, clk.bits, clkMem, pwmMem)
    IN  \A g \in groups :
            (clk.pin \in g /\ clk.pc # "idle") =>
                /\ \A q \in g : \A pc \in steps : W(pc, q) = W(pc, clk.pin)
                /\ \A h \in groups \ {g} :
                       {W(pc, q)[2] : pc \in clocked, q \in h}
                           \cap {W(pc, clk.pin)[2] : pc \in clocked} = {}

\* SetFreq(20, 152000) is about to store the divider, to the register and with
\* the value that SetFreq(4, 152000) stores: password, divi = 126, divf = 1293
C9_Witness ==
    /\ clk.pc = "div" /\ clk.pin = 20 /\ clk.freq = 152000
    /\ SetFreqWrite("div", 4, 152000, clk.bits, clkMem, pwmMem)
           = <<"clk", 29, PASSWORD \cup Shl(BitsOf(126), 12) \cup BitsOf(1293)>>
    /\ Len(clk.log) = 2

\* C10: select_chip(n) for n in 0..2 leaves the 2-bit chip-select field
\* (bits 0..1) of the SPI control register equal to n and every other bit of
\* the register unchanged; set_chip_select_polarity(chip, pol) changes only bit
\* 21+chip for chip in 0..2 and nothing for chip > 2; set_clock_mode(cpol,
\* cpha) changes only bits 3 and 2.
C10_SpiControlBits ==
    [][LET cs  == SpiLoadCs(spiMem, txFifo, rxFifo)
           cs2 == SpiLoadCs(spiMem', txFifo', rxFifo')
       IN  /\ (last'.op = "SpiChipSelect" /\ last'.arg \in 0..2)
                  => /\ ValOf(cs2 \cap {0, 1}) = last'.arg
                     /\ cs2 \ {0, 1} = cs \ {0, 1}
           /\ (last'.op = "SpiChipSelectPolarity" /\ last'.arg[1] \in 0..2)
                  => /\ cs2 \ {21 + last'.arg[1]} = cs \ {21 + last'.arg[1]}
                     /\ (21 + last'.arg[1] \in cs2) <=> (last'.arg[2] # 0)
           /\ (last'.op = "SpiChipSelectPolarity" /\ last'.arg[1] > 2)
                  => cs2 = cs
           /\ last'.op = "SpiMode"
                  => /\ cs2 \ {2, 3} = cs \ {2, 3}
                     /\ (3 \in cs2) <=> (last'.arg[1] # 0)
                     /\ (2 \in cs2) <=> (last'.arg[2] # 0)
      ]_vars

\* chip 1 was selected while the field held 2 and the polarity bit of chip 2,
\* the clock polarity bit and a status bit were set
C10_Witness ==
    /\ last.op = "SpiChipSelect" /\ last.arg = 1
    /\ SpiLoadCs(spiMem, txFifo, rxFifo) \cap {0, 1, 2, 3, 17, 21, 22, 23}
           = {0, 3, 17, 23}

\* C11: the resolved peripheral base is the big-endian 32-bit value at byte
\* offset 4 of the translation file when that read succeeds and is non-zero,
\* otherwise the value at offset 8 when that read succeeds and is non-zero,
\* otherwise 0x20000000; it is never 0.
C11_ResolvedBase ==
    LET ok(off)  == ranges.exists /\ Len(ranges.bytes) >= off + 4
        val(off) == {b \in Word :
                        (ranges.bytes[off + 4 - (b \div 8)] \div (2 ^ (b % 8))) % 2 = 1}
    IN  last.op = "getBase" =>
            /\ last.ret # {}
            /\ last.ret = IF ok(4) /\ val(4) # {} THEN val(4)
                          ELSE IF ok(8) /\ val(8) # {} THEN val(8)
                          ELSE {29}

\* zero at offset 4 and 0xFE000000 at offset 8 resolve to 0xFE000000
C11_Witness ==
    /\ last.op = "getBase"
    /\ ranges.bytes = <<126, 0, 0, 0, 0, 0, 0, 0, 254, 0, 0, 0>>
    /\ last.ret = 25..31

\* C12: a request on a pin outside the mode's supported set changes no
\* register: PinMode(p, Clock) for p not in {4,5,6,20,21,32,34,42,43,44},
\* PinMode(p, Pwm) for p not in {12,13,18,19,40,41,45}, PinMode(p, Spi) for p
\* not in 7..11, 16..21, 35..39, 40..45, SetFreq on a pin of no clock group and
\* SetDutyCycle on a pin of no PWM channel leave every GPIO, clock and PWM
\* register as it was (SetFreq makes no store and is not left running).
C12_UnsupportedIsNoOp ==
    /\ [](LET c == last IN
            (c.op = "SetFreq" /\ c.pin \notin {4, 5, 6, 20, 21, 32, 34, 42, 43, 44,
                                                12, 13, 18, 19, 40, 41, 45})
                => clk.pc = "idle" /\ clk.log = <<>>)
    /\ [][LET c == last'
              pwmPins == {12, 13, 18, 19, 40, 41, 45}
              clkPins == {4, 5, 6, 20, 21, 32, 34, 42, 43, 44}
              spiPins == (7..11) \cup (16..21) \cup (35..39) \cup (40..45)
          IN  (/\ c # last
               /\ \/ c.op = "PinMode" /\ c.arg = "Clock" /\ c.pin \notin clkPins
                  \/ c.op = "PinMode" /\ c.arg = "Pwm" /\ c.pin \notin pwmPins
                  \/ c.op = "PinMode" /\ c.arg = "Spi" /\ c.pin \notin spiPins
                  \/ c.op = "SetFreq" /\ c.pin \notin clkPins \cup pwmPins
                  \/ c.op = "SetDutyCycle" /\ c.pin \notin pwmPins)
                  => UNCHANGED <<gpioMem, clkMem, pwmMem>>]_vars

\* SetDutyCycle on pin 14, of no PWM channel, has returned, and so has
\* PinMode(14, Pwm) or SetFreq(14, f) in other runs
C12_Witness ==
    /\ last.op \in {"SetDutyCycle", "PinMode", "SetFreq"}
    /\ last.op = "PinMode" => last.arg = "Pwm"
    /\ last.op = "SetDutyCycle" => last.arg = <<1, 4>>
    /\ last.pin = 14
    /\ clk.pc = "idle"
    /\ pwmMem[0] = {0, 7, 8, 15} /\ pwmMem[5] = {5} /\ gpioMem[1] = {i \in Word : i % 2 = 0}

\* C13: every register read-modify-write sequence of mode set, pull set, clock
\* programming and duty-cycle set runs while the calling thread holds the
\* process-wide lock, acquired before the first register access and released
\* after the last, so that no two of these sequences in different threads
\* interleave their register accesses: a thread about to make a register
\* access of such a call holds the lock, and no two threads are both between
\* the first and the last register access of their calls.
C13_SequencesUnderLock ==
    LET ops      == {"PinMode", "PullMode", "SetFreq", "SetDutyCycle"}
        prog(t)  == Prog(thr[t].call, hw2711)
        acc(t)   == {j \in 1..Len(prog(t)) : prog(t)[j].k \in {"load", "store", "await"}}
        inside(t) == /\ thr[t].call.op \in ops
                     /\ \E j, k \in acc(t) : j < thr[t].pc /\ thr[t].pc <= k
    IN  /\ \A t \in Threads :
               (thr[t].call.op \in ops /\ thr[t].pc \in acc(t)) => memlock = t
        /\ \A t, u \in Threads : (inside(t) /\ inside(u)) => t = u

\* C14: begin(channel) returns the registers-not-mapped error exactly when
\* the SPI control/status register reads back as all zero right after being
\* written with zero; when it returns the error it has changed no pin's
\* function-select field, has not set the FIFO-clear bits and has not written
\* the clock divider (its only effect is the zeroed control register); when it
\* returns no error all three steps were performed.
C14_BeginMapCheck ==
    /\ [](last.op = "SpiBegin" =>
            /\ last.ret = "SpiMapError" <=> last.was.rb = {}
            /\ last.ret # "SpiMapError" => last.ret = "nil"
            /\ last.ret = "SpiMapError" => last.was.stores = <<<<"cs", {}>>>>
            /\ last.ret = "nil" =>
                   /\ Len(last.was.stores) = 3
                   /\ last.was.stores[2][1] = "cs" /\ {4, 5} \subseteq last.was.stores[2][2]
                   /\ last.was.stores[3][1] = "div"
                   /\ \A k \in 1..Len(getSpiPins(last.arg)) :
                          ReadPinMode(gpioMem, getSpiPins(last.arg)[k])
                              = (IF last.arg = 0 THEN 4 ELSE 3)
                   /\ txFifo = <<>> /\ rxFifo = <<>>)
    /\ [][(last'.op = "SpiBegin" /\ last'.ret = "SpiMapError") =>
              /\ UNCHANGED <<gpioMem, txFifo, rxFifo>>
              /\ spiMem'.div = spiMem.div
              /\ spiMem.live => spiMem'.cs = {}]_vars

\* SpiBegin(Spi0) on a window no peripheral answers behind returned
\* SpiMapError, and so did SpiBegin on a live controller whose TX FIFO is full
C14_Witness ==
    /\ last.op = "SpiBegin" /\ last.arg = 0 /\ last.ret = "SpiMapError"
    /\ spiMem.live => Len(txFifo) = 16
    /\ gpioMem[0] = AllOnes /\ spiMem.div = 1..15 /\ rxFifo = <<>>

\* C15: after a successful begin(dev) every pin of the device's group reads
\* back the SPI alt-function code (Spi0: pins 7..11 = 4; Spi1: pins 16..21 = 3;
\* Spi2: pins 40..45 = 3), the two FIFO-clear bits were written and the clock
\* divider holds 128; after end(dev) every pin of the group reads back Input
\* (0); in both cases the function-select fields of the pins outside the
\* group are unchanged.
C15_BeginEndPins ==
    /\ [](LET group == CASE last.arg = 0 -> 7..11 [] last.arg = 1 -> 16..21
                         [] last.arg = 2 -> 40..45 [] OTHER -> {}
          IN  /\ (last.op = "SpiBegin" /\ last.ret = "nil") =>
                     /\ \A p \in group : ReadPinMode(gpioMem, p)
                                              = (IF last.arg = 0 THEN 4 ELSE 3)
                     /\ \E k \in 1..Len(last.was.stores) :
                            /\ last.was.stores[k][1] = "cs"
                            /\ {4, 5} \subseteq last.was.stores[k][2]
                     /\ ValOf(spiMem.div) = 128
              /\ last.op = "SpiEnd" => \A p \in group : ReadPinMode(gpioMem, p) = 0)
    /\ [][LET group == CASE last'.arg = 0 -> 7..11 [] last'.arg = 1 -> 16..21
                         [] last'.arg = 2 -> 40..45 [] OTHER -> {}
          IN  last'.op \in {"SpiBegin", "SpiEnd"} =>
                  \A p \in (0..MaxPin) \ group :
                      ReadPinMode(gpioMem', p) = ReadPinMode(gpioMem, p)]_vars

\* SpiBegin(Spi1) succeeded where every pin was Alt3 before: pins 16..21 read
\* Alt4, their neighbours 15 and 22 still Alt3, and the divider holds 128
C15_Witness ==
    /\ last.op = "SpiBegin" /\ last.arg = 1 /\ last.ret = "nil"
    /\ ReadPinMode(gpioMem, 16) = 3 /\ ReadPinMode(gpioMem, 21) = 3
    /\ ReadPinMode(gpioMem, 15) = 7 /\ ReadPinMode(gpioMem, 22) = 7
    /\ spiMem.div = {7}

\* C16: apart from open/close and SPI begin, every operation is a total
\* function: for every 8-bit pin and every integer frequency or speed
\* argument (set_frequency(pin, freq), set_speed(hz)) the call completes
\* without raising an error or aborting.
C16_TotalFunctions == last.ret # "panic"

\* C17: SPI exchange is the only operation that can block for an unbounded
\* time: every other operation, including set_pull and set_frequency, returns
\* after a bounded number of steps whatever the hardware registers read, and
\* therefore never holds the process-wide lock forever: every call of
\* PinMode, PullMode, SetFreq and SetDutyCycle that a thread is in returns,
\* and the lock, once held, is released.
C17_OnlyExchangeBlocks ==
    /\ \A t \in Threads : Running(t) ~> ~Running(t)
    /\ (memlock # "free") ~> (memlock = "free")

\* C18: close() unmaps every register window that was mapped by open(): after
\* close() returns, whether with nil or with an unmap error from any one
\* window, none of the Gpio, Clock, Pwm, Spi and Interrupt windows is still
\* mapped.
C18_CloseUnmapsAll ==
    (prev.op = "Open" /\ prev.ret = "nil"
         /\ last.op = "Close" /\ last.ret \in {"nil", "error"})
        => proc.mapped = {}

\* C19: set_frequency on a supported pin stores in this order: (1) control :=
\* password | (current control with the enable bit cleared); (2) control is
\* re-read until the busy bit is 0; (3) control := password | MASH | source,
\* enable 0; (4) divider := password | divi<<12 | divf; (5) control :=
\* password | MASH | source | enable. The enable bit is never written as 1 in
\* a store before the divider store, and for the pwm_clk group both PWM
\* channel enable bits are cleared before (1) and set again only after (5).
\* (divi, divf, MASH are written out for the model's frequencies and widths
\* of int.)
C19_ProgrammingOrder ==
    /\ [](LET g    == ClkGroup(clk.pin)
              d    == CASE clk.freq = 4688     -> <<4095, 2306, {9}>>
                        [] clk.freq = 152000   -> <<126, 1293, {9}>>
                        [] clk.freq = 12000000
                             -> <<1, IF clk.bits = 32 THEN 4049 ELSE 2457, {}>>
                        [] OTHER               -> <<1, 0, {}>>
              pw   == {25, 27, 28, 30}
              tail == <<<<"clk", g.ctl, pw \cup d[3] \cup {0}>>,
                        <<"clk", g.div, pw \cup Shl(BitsOf(d[1]), 12) \cup BitsOf(d[2])>>,
                        <<"clk", g.ctl, pw \cup d[3] \cup {0, 4}>>>>
              clog == SelectSeq(clk.log, LAMBDA w : w[1] = "clk")
              plog == SelectSeq(clk.log, LAMBDA w : w[1] = "pwm")
          IN  (last.op = "SetFreq" /\ g.ctl # -1) =>
                  /\ Len(clog) <= 4 /\ (clk.pc = "idle" => Len(clog) = 4)
                  /\ Len(clog) >= 1 =>
                         /\ clog[1][2] = g.ctl
                         /\ pw \subseteq clog[1][3] /\ 4 \notin clog[1][3]
                  /\ \A k \in 2..Len(clog) : clog[k] = tail[k - 1]
                  /\ \A k \in 1..Len(clog) : k < 3 => 4 \notin clog[k][3]
                  /\ ~g.pwm => plog = <<>>
                  /\ g.pwm =>
                         /\ Len(plog) <= 2 /\ (clk.pc = "idle" => Len(plog) = 2)
                         /\ Len(clog) >= 1 =>
                                /\ clk.log[1][1] = "pwm"
                                /\ clk.log[1][3] \cap {0, 8} = {}
                         /\ Len(plog) = 2 =>
                                /\ Len(clog) = 4 /\ clk.log[6] = plog[2]
                                /\ {0, 8} \subseteq plog[2][3])
    /\ [][LET g    == ClkGroup(clk.pin)
              n    == Len(SelectSeq(clk.log, LAMBDA w : w[1] = "clk"))
              n2   == Len(SelectSeq(clk'.log, LAMBDA w : w[1] = "clk"))
              w    == clk'.log[Len(clk'.log)]
          IN  /\ (clk'.pin = clk.pin /\ n = 0 /\ n2 = 1)
                     => w = <<"clk", g.ctl, {25, 27, 28, 30} \cup (clkMem[g.ctl] \ {4})>>
              /\ (clk'.pin = clk.pin /\ n = 1 /\ n2 = 2) => 7 \notin clkMem[g.ctl]]_vars

\* SetFreq(12, 152000) has returned after its six stores: PWM stopped, the
\* four clock stores with the divider (126, 1293) third, PWM started
C19_Witness ==
    /\ last.op = "SetFreq" /\ clk.pc = "idle" /\ clk.pin = 12 /\ clk.freq = 152000
    /\ Len(clk.log) = 6
    /\ clk.log[4] = <<"clk", 41, {25, 27, 28, 30} \cup Shl(BitsOf(126), 12)
                                    \cup BitsOf(1293)>>
    /\ clk.log[5][2] = 40 /\ 4 \in clk.log[5][3]
    /\ clk.log[6][1] = "pwm"

\* C20: for every frequency f in 4688 Hz..19.2 MHz, with a 64-bit and with a
\* 32-bit int alike, the divider word stored by set_frequency has
\* divi = floor(19200000 / f) <= 4095 and
\* divf = floor(((19200000 mod f) * 4096) / f) < 4096, and the MASH bit of
\* the control word is 1 exactly when divi >= 2 and divf # 0.
\* (the quotient of rem * 4096 is taken in two steps of 64 to stay within
\* the model checker's integers)
C20_DividerArithmetic ==
    LET f    == clk.freq
        g    == ClkGroup(clk.pin)
        divi == 19200000 \div f
        rem  == 19200000 % f
        divf == ((rem * 64) \div f) * 64 + (((rem * 64) % f) * 64) \div f
        clog == SelectSeq(clk.log, LAMBDA w : w[1] = "clk")
    IN  (last.op = "SetFreq" /\ g.ctl # -1 /\ f >= 4688 /\ f <= 19200000) =>
            /\ divi <= 4095 /\ divf < 4096
            /\ Len(clog) >= 2 => ((9 \in clog[2][3]) <=> (divi >= 2 /\ divf # 0))
            /\ Len(clog) >= 3 =>
                   clog[3] = <<"clk", g.div, {25, 27, 28, 30} \cup Shl(BitsOf(divi), 12)
                                                  \cup BitsOf(divf)>>

\* C21: on the legacy revision, PullMode(p, pull) stores in the order: pull
\* control low 2 bits := requested code (Off = 0, Down = 1, Up = 2), clock
\* register of bank p/32 := bit p%32, control low 2 bits := 0, clock
\* register := 0; when the clock bit is pulsed the control field is exactly
\* the requested code, and once every PullMode has returned the control
\* field and the clock registers are 0, for any sequence of calls.
\* (a call's position: 5 after its first store, 6 after the pulse, 8 after
\* the control field is cleared, 9 after the clock register is cleared and
\* before the lock is released)
C21_LegacyPullSequence ==
    /\ \A t \in Threads :
          LET c     == thr[t].call
              pc    == thr[t].pc
              field == gpioMem[37] \cap {0, 1}
              clock == gpioMem[38 + c.pin \div 32]
          IN  c.op = "PullMode" =>
                  /\ pc \in 5..7 => field = BitsOf(c.arg)
                  /\ pc \in 6..8 => clock = Shl({0}, c.pin % 32)
                  /\ pc \in 8..9 => field = {}
                  /\ pc = 9 => clock = {}
    /\ (\A t \in Threads : ~Running(t)) /\ (\E t \in Threads : thr[t].n > 0)
          => gpioMem[37] \cap {0, 1} = {} /\ gpioMem[38] = {} /\ gpioMem[39] = {}

\* C22: SpiExchange(buf) keeps this order: both FIFO clear bits are set, then
\* Transfer-Active is set before the first FIFO write; for each index i in
\* order, buf[i] is written to the FIFO only after TXD was read as 1 and the
\* FIFO is read into buf[i] only after RXD was read as 1; Transfer-Active is
\* cleared only after DONE was read as 1, and it is 0 whenever SpiExchange
\* has returned.
C22_ExchangeProtocol ==
    /\ []((last.op = "SpiExchange" /\ spi.pc = "idle") => 7 \notin spiMem.cs)
    /\ [](spi.pc \in {"txd", "put", "rxd", "get", "done", "taoff"} => 7 \in spiMem.cs)
    /\ [][LET cs == SpiLoadCs(spiMem, txFifo, rxFifo) IN
          \* the call begins with the store of both clear bits
          /\ (spi.pc = "idle" /\ spi'.pc # "idle")
                 => /\ txFifo' = <<>> /\ rxFifo' = <<>>
                    /\ spi'.i = 1 /\ spi'.pc = "ta"
          \* Transfer-Active is set next, before any FIFO access
          /\ (7 \notin spiMem.cs /\ 7 \in spiMem'.cs) => (spi.pc = "ta" /\ spi.i = 1)
          /\ spi.pc = "ta" => (spi'.pc = "ta" \/ 7 \in spiMem'.cs)
          \* a FIFO write: of buf[i], with Transfer-Active and TXD at 1, and
          \* the read of the same index comes next
          /\ Len(txFifo') > Len(txFifo)
                 => /\ 7 \in cs /\ 18 \in cs
                    /\ txFifo' = Append(txFifo, spi.data[spi.i])
                    /\ spi'.i = spi.i /\ spi'.pc = "rxd"
          \* a FIFO read: into buf[i], with RXD at 1, after the write of
          \* buf[i], and the next index follows
          /\ (spi.pc # "idle" /\ spi'.i = spi.i + 1)
                 => /\ 17 \in cs /\ spi.pc = "get"
                    /\ spi'.data = [spi.data EXCEPT ![spi.i] = Head(rxFifo)]
                    /\ rxFifo' = Tail(rxFifo)
                    /\ spi'.pc = IF spi.i = Len(spi.data) THEN "done" ELSE "txd"
          /\ (spi.pc = "rxd" /\ spi'.pc = "get") => 17 \in cs
          /\ (spi.pc = "txd" /\ spi'.pc = "put") => 18 \in cs
          \* Transfer-Active is cleared with DONE at 1, as the call returns
          /\ (7 \in spiMem.cs /\ 7 \notin spiMem'.cs)
                 => /\ 16 \in cs /\ spi.pc = "taoff" /\ spi'.pc = "idle"
          /\ (spi.pc = "done" /\ spi'.pc = "taoff") => 16 \in cs
          /\ (spi.pc # "idle" /\ spi'.pc = "idle") => 7 \notin spiMem'.cs]_vars

\* SpiExchange of two bytes has returned; Transfer-Active is 0 and the FIFOs
\* are empty
C22_Witness ==
    /\ spi.pc = "idle"
    /\ last.op = "SpiExchange"
    /\ Len(last.arg) = 2 /\ Len(last.ret) = 2
    /\ 7 \notin spiMem.cs
    /\ txFifo = <<>> /\ rxFifo = <<>>

\* C23: SpiExchange(buf) returns if the hardware raises each awaited status
\* bit in the end (TXD and RXD for every byte, then DONE), an empty buffer
\* included; while an awaited bit is not raised the call stays in its loop
\* with Transfer-Active set, so with a controller that never shifts the byte
\* that was written, SpiExchange never returns and Transfer-Active stays set.
C23_ExchangeTermination ==
    /\ (spi.pc # "idle" /\ ~spiMem.stall) ~> (spi.pc = "idle")
    /\ (spi.pc = "ta" /\ spi.data = <<>> /\ ~spiMem.stall)
           ~> (spi.pc = "idle" /\ last.op = "SpiExchange" /\ last.arg = <<>>)
    /\ [][LET cs == SpiLoadCs(spiMem, txFifo, rxFifo) IN
          (\/ spi.pc = "txd" /\ 18 \notin cs
           \/ spi.pc = "rxd" /\ 17 \notin cs
           \/ spi.pc = "done" /\ 16 \notin cs)
              => (spi'.pc = spi.pc /\ 7 \in spiMem'.cs)]_vars
    /\ []((spiMem.stall /\ spi.pc = "rxd" /\ rxFifo = <<>>)
             => [](spi.pc = "rxd" /\ 7 \in spiMem.cs))

\* the controller is stalled and SpiExchange is in its loop on RXD: the byte
\* it wrote is in the TX FIFO, the RX FIFO is empty, Transfer-Active is set
C23_Witness ==
    /\ spiMem.stall
    /\ spi.pc = "rxd"
    /\ txFifo # <<>> /\ rxFifo = <<>>
    /\ 7 \in spiMem.cs

\* C24: set_mode(p, m) changes only the 3-bit field of pin p and leaves the
\* fields of the other pins of the same function select register unchanged;
\* under any interleaving of concurrent set_mode calls on distinct pins of
\* one register, once all calls have completed every pin's field holds the
\* code its own (last) call requested: no update is lost.
C24_ModeNoLostUpdate ==
    /\ []((\A t \in Threads : ~Running(t) /\ thr[t].call.op = "PinMode")
            => \A t \in Threads :
                   LET table == [Input |-> 0, Output |-> 1, Alt0 |-> 4, Alt1 |-> 5,
                                 Alt2 |-> 6, Alt3 |-> 7, Alt4 |-> 3, Alt5 |-> 2]
                       p     == thr[t].call.pin
                   IN  ValOf({i \in 0..2 : i + 3 * (p % 10) \in gpioMem[p \div 10]})
                           = table[thr[t].call.arg])
    /\ [][\A t \in Threads :
             thr'[t].pc # thr[t].pc =>
                 LET p     == thr[t].call.pin
                     field == {3 * (p % 10) + i : i \in 0..2}
                 IN  \A r \in GpioRegs :
                        IF r = p \div 10
                        THEN gpioMem'[r] \ field = gpioMem[r] \ field
                        ELSE gpioMem'[r] = gpioMem[r]]_vars

\* both calls have completed on a register that was all ones: pin 4 is an
\* output, pin 5 has Alt0, the other fields of register 0 are as they were
C24_Witness ==
    /\ \A t \in Threads : ~Running(t)
    /\ thr["a"].call = [op |-> "PinMode", pin |-> 4, arg |-> "Output"]
    /\ thr["b"].call = [op |-> "PinMode", pin |-> 5, arg |-> "Alt0"]
    /\ gpioMem[0] = AllOnes \ {13, 14, 15, 16}

\* C25: every register read-modify-write sequence is serialized by the one
\* lock, outside the pin-mode path too: under any interleaving of concurrent
\* set_edge_detect calls on two pins of one bank, once both have completed
\* each pin's rising-enable and falling-enable bits are what its own call
\* requested; likewise concurrent stop_pwm, set_duty_cycle and setters of
\* the SPI control bits never lose another call's update to the shared
\* control register. (each thread works on bits of its own, so once all
\* calls have completed the bits of a thread's last call are as it left them)
C25_UnlockedNoLostUpdate ==
    (\A t \in Threads : ~Running(t)) =>
        \A t \in Threads :
            LET c == thr[t].call IN
            /\ c.op = "DetectEdge" =>
                   /\ (c.pin % 32 \in gpioMem[19 + c.pin \div 32]) <=> (c.arg \in {1, 3})
                   /\ (c.pin % 32 \in gpioMem[22 + c.pin \div 32]) <=> (c.arg \in {2, 3})
            /\ c.op = "SetDutyCycle" =>
                   LET sh == IF c.pin = 12 THEN 0 ELSE 8 IN
                   /\ {i \in 0..7 : i + sh \in pwmMem[0]} = {0, 7}
                   /\ pwmMem[IF sh = 0 THEN 5 ELSE 9] = BitsOf(c.arg[1])
                   /\ pwmMem[IF sh = 0 THEN 4 ELSE 8] = BitsOf(c.arg[2])
            /\ c.op = "StopPwm" => 0 \notin pwmMem[0]
            /\ c.op = "SpiChipSelect" => spiMem.cs \cap {0, 1} = BitsOf(c.arg)
            /\ c.op = "SpiMode" =>
                   /\ (3 \in spiMem.cs) <=> (c.arg[1] # 0)
                   /\ (2 \in spiMem.cs) <=> (c.arg[2] # 0)

\* C26: edge_detected(p) and set_edge_detect(p, .) clear only the latch of
\* pin p: an event latched on any other pin q of the bank is still latched
\* afterwards, and the next edge_detected(q) reports it as true (the event
\* status register being write-1-to-clear).
C26_OtherLatchesKept ==
    [][last'.op \in {"EdgeDetected", "DetectEdge"} =>
          \A q \in (0..MaxPin) \ {pin} :
              (q % 32 \in gpioMem[16 + q \div 32])
                  => /\ q % 32 \in gpioMem'[16 + q \div 32]
                     /\ EdgeDetectedRet(gpioMem', q)]_vars

\* edge_detected(4) has returned true and cleared the latch of pin 4; the
\* latches of the other pins of bank 0 are all still set
C26_Witness ==
    /\ last.op = "EdgeDetected" /\ last.pin = 4 /\ last.ret = TRUE
    /\ gpioMem[16] = AllOnes \ {4}

\* C27: the choice between the legacy clock-in mechanism and the 2-bit
\* fields is fixed for a given hardware: the revision probe gives the same
\* answer at every set_pull and read_pull call, whatever pull values have
\* been written, writes for the pins whose fields are in the very word the
\* probe compares with 0x6770696f included.
C27_ProbeIsStable ==
    /\ [](isBCM2711(gpioMem) = hw2711)
    /\ []((last.op \in {"PullMode", "ReadPull"} /\ prev.op \in {"PullMode", "ReadPull"})
             => last.ret = prev.ret)
    /\ [][isBCM2711(gpioMem') = isBCM2711(gpioMem)]_vars

\* on a BCM2711, pin 49 was pulled Down and then pin 48 Up; both calls took
\* the path of the 2-bit fields, and the probe still finds no sentinel
C27_Witness ==
    /\ hw2711
    /\ prev.op = "PullMode" /\ prev.pin = 49 /\ prev.arg = Pulls.PullDown
    /\ last.op = "PullMode" /\ last.pin = 48 /\ last.arg = Pulls.PullUp
    /\ prev.ret = TRUE /\ last.ret = TRUE
    /\ gpioMem[60] \cap (0..3) = {0, 3}
    /\ isBCM2711(gpioMem)

\* C28: for every 8-bit pin value (0..255) each pin operation writes only
\* registers of its own function: set_mode only function select registers
\* (words 0..5), write and toggle only a set register (7..8) or a clear
\* register (10..11), write(p, High) never a clear register, the edge
\* operations only rising-enable (19..20), falling-enable (22..23) and event
\* status (16..17) registers; hence no pin value makes an operation alter
\* the level, mode or latch of another pin through register-index aliasing.
\* (a store to a set or clear register shows in the level registers 13..14
\* and, where detection is enabled, in the event status registers)
C28_OwnRegistersOnly ==
    [][LET Same(regs) == \A r \in GpioRegs \ regs : gpioMem'[r] = gpioMem[r]
           p == pin
       IN  /\ last'.op = "PinMode"
                  => /\ p \div 10 \in 0..5
                     /\ Same(0..5)
           /\ last'.op \in {"WritePin", "TogglePin"}
                  => /\ p \div 32 + 7 \in 7..8 /\ p \div 32 + 10 \in 10..11
                     /\ Same({13, 14, 16, 17})
           /\ (last'.op = "WritePin" /\ last'.arg = "High")
                  => \A r \in {13, 14} : gpioMem[r] \subseteq gpioMem'[r]
           /\ last'.op \in {"DetectEdge", "EdgeDetected"}
                  => /\ p \div 32 + 19 \in 19..20 /\ p \div 32 + 22 \in 22..23
                     /\ p \div 32 + 16 \in 16..17
                     /\ Same({16, 17, 19, 20, 22, 23})]_vars
\* C29: lock discipline: a thread that is in no call does not hold memlock
\* (early returns, the non-deferred unlock of WritePin and TogglePin, Open
\* failing to open the file or to map any window, Close failing to unmap);
\* no thread comes to memlock.Lock() while it holds the lock; and if no thread
\* waits for ever on a clock busy bit that stays 1, every call of a locked
\* operation returns.
C29_LockDiscipline ==
    /\ [](\A t \in Threads : memlock = t => Running(t))
    /\ [](\A t \in Threads : AtStep(t, "lock") => memlock # t)
    /\ ([]<>(\A t \in Threads :
                ~(AtStep(t, "await") /\ 7 \in clkMem[thr[t].prog[thr[t].pc].r])))
           => (\A t \in Threads : Running(t) ~> ~Running(t))

\* C30: interrupt enables are restored on shutdown: DetectEdge with an edge
\* other than NoEdge has IRQ lines 49 and 52 disabled before it stores to a
\* rising or falling edge enable register; backupIRQs stores the lines that
\* are enabled as irqsBackup, which nothing else changes; and once Close has
\* written the enable registers, and after it has returned, every line of
\* irqsBackup is enabled, whatever DetectEdge, EnableIRQs and DisableIRQs
\* calls were made since Open.
C30_IrqsRestored ==
    /\ [][\A r \in {19, 20, 22, 23} :
             gpioMem'[r] # gpioMem[r]
                 => /\ thr["a"].call.op = "DetectEdge"
                    /\ thr["a"].call.arg # Edges.NoEdge
                           => intrMem \cap {49, 52} = {}]_vars
    /\ [][proc'.irqsBackup # proc.irqsBackup \/ AtStep("a", "backup")
             => /\ thr["a"].call.op = "Open"
                /\ AtStep("a", "backup")
                /\ proc'.irqsBackup = intrMem]_vars
    /\ [](thr["a"].call.op = "Close" /\ thr["a"].pc \in 3..(Len(thr["a"].prog) + 1)
             => proc.irqsBackup \subseteq intrMem)

\* Close has returned after Open, a DetectEdge that disabled lines 49 and 52
\* and a DisableIRQs: the three lines of the backup are enabled again
C30_Witness ==
    /\ thr["a"].call.op = "Close" /\ thr["a"].pc = Len(thr["a"].prog) + 1
    /\ thr["a"].n = 4
    /\ proc.irqsBackup = {29, 49, 52}
    /\ 4 \in gpioMem[19]
    /\ proc.mapped = {}
    /\ intrMem = {29, 49, 52}

====
